---- MODULE Spec2Model ----
(***************************************************************************)
(* NodeLab execution engine: the zustand graph store (nodes, edges,        *)
(* projects) and executeNode, the per-node-type execution routine with     *)
(* its submit/poll cycles.  Every action is one synchronous block of the   *)
(* JavaScript code: the code between two suspension points (await, timer)  *)
(* runs to completion on the single thread, so it is one atomic step.      *)
(***************************************************************************)
EXTENDS Integers, Sequences, FiniteSets, TLC

(***************************************************************************)
(* Bounds of the model.                                                    *)
(***************************************************************************)
MaxRuns == 2      \* executions started in one behaviour
MaxPolls == 1     \* non-terminal poll answers per execution
MaxUserOps == 2   \* user gestures (load, new, delete, editor save)

(***************************************************************************)
(* Values.  A field the code leaves undefined is NoVal (text) or NoNum     *)
(* (number).  A text (content, prompt) is a sequence of lines; a string the *)
(* code parses (gridSelect) is the sequence of its characters, empty when  *)
(* the field is absent or ''.                                              *)
(***************************************************************************)
NoVal == "undefined"
NoNum == -1

\* crypto.randomUUID(): the k-th call returns an id no file and no earlier call uses
FreshId(k) == 100 + k

Truthy(s) == s /= NoVal /\ s /= ""

PassiveTypes == {"inputText", "inputImage", "outputResult", "imageProcessing"}
ExpertTypes == {"aiExpert", "expertOptimizer", "expertStoryboard", "expertAction",
                "expertCharacter", "expertEnvironment"}
ComflyModels == {"comfly:nano-banana", "comfly:veo3.1-fast"}

StartsWithComfly(m) == m \in ComflyModels

IsExpert(type) == type \in ExpertTypes

(***************************************************************************)
(* A node as addNewNode creates it: idle, with the default configuration.  *)
(***************************************************************************)
NewNode(id, type) ==
  [id |-> id, type |-> type, selected |-> FALSE, pos |-> <<0, 0>>,
   status |-> "idle", progress |-> NoNum, statusMsg |-> NoVal,
   startTime |-> NoNum, duration |-> NoNum,
   content |-> <<>>, url |-> NoVal, remark |-> "", label |-> type, dtype |-> type,
   readImageRemarks |-> TRUE,
   model |-> IF type = "aiImageGen" THEN "gemini-native"
             ELSE IF type = "aiVideoGen" THEN "comfly:veo3.1-fast" ELSE NoVal,
   comflyAsync |-> TRUE,
   gridType |-> "3x3", gridSelect |-> <<"0">>, gridTrim |-> 10,
   characterAnchor |-> <<>>, sequenceContent |-> <<>>]

\* a result node: type outputResult, position, data { type, label, content, url,
\* status: idle }
ResultNode(id, dtype, label, content, url, pos) ==
  [NewNode(id, "outputResult") EXCEPT !.dtype = dtype, !.label = label,
                                      !.content = content, !.url = url,
                                      !.model = NoVal, !.pos = pos]

\* position: { x: node.position.x + 400, y: node.position.y }
RightOf(node) == <<node.pos[1] + 400, node.pos[2]>>

NewEdge(source, target, sourceHandle, targetHandle, order) ==
  [id |-> <<source, target>>, source |-> source, target |-> target,
   sourceHandle |-> sourceHandle, targetHandle |-> targetHandle,
   order |-> order, selected |-> FALSE]

(***************************************************************************)
(* The projects found in localStorage at start-up (getInitialProjects):    *)
(* graphs built and saved earlier with the editor.  Node ids are unique    *)
(* across projects, as UUIDs are; the selection is saved with the nodes.   *)
(***************************************************************************)
ProjectSplit ==
  [id |-> "pSplit",
   nodes |-> << [NewNode(1, "inputImage") EXCEPT !.url = "img1", !.status = "success"],
                [NewNode(2, "imageSplit") EXCEPT !.gridType = "2x2", !.gridSelect = <<"1", ",", "2", ",", "7">>,
                                                 !.selected = TRUE, !.pos = <<400, 40>>],
                NewNode(3, "imageProcessing") >>,
   edges |-> << NewEdge(1, 2, "image", "image", 1), NewEdge(1, 3, "image", "image", 1) >>]

ProjectText ==
  [id |-> "pText",
   nodes |-> << [NewNode(4, "promptMerge") EXCEPT !.gridType = "2x2",
                                                  !.sequenceContent = <<"A", " ", "B">>],
                [NewNode(5, "expertStoryboard") EXCEPT !.selected = TRUE, !.pos = <<0, 300>>],
                NewNode(6, "promptMerge") >>,
   edges |-> << >>]

ProjectNative ==
  [id |-> "pNative",
   nodes |-> << [NewNode(14, "inputImage") EXCEPT !.url = "img2", !.status = "success"],
                [NewNode(7, "aiImageGen") EXCEPT !.selected = TRUE],
                [NewNode(8, "aiImageGen") EXCEPT !.model = "comfly:nano-banana",
                                                 !.selected = TRUE] >>,
   edges |-> << NewEdge(14, 7, "image", "image", 1) >>]

ProjectDraw ==
  [id |-> "pDraw",
   nodes |-> << [NewNode(9, "aiImageGen") EXCEPT !.model = "comfly:nano-banana",
                                                 !.comflyAsync = FALSE],
                [NewNode(10, "aiImageGen") EXCEPT !.model = "nano-banana"] >>,
   edges |-> << >>]

ProjectVideo ==
  [id |-> "pVideo",
   nodes |-> << [NewNode(11, "inputText") EXCEPT !.content = <<"a sunrise">>],
                NewNode(12, "aiVideoGen"),
                [NewNode(13, "aiVideoGen") EXCEPT !.model = "veo3.1-fast"] >>,
   edges |-> << NewEdge(11, 12, "text", "text", NoNum),
                [NewEdge(11, 13, "text", "text", NoNum) EXCEPT !.selected = TRUE] >>]

StoredProjects == {ProjectSplit, ProjectText, ProjectNative, ProjectDraw, ProjectVideo}

EditorIds == {3}   \* the imageProcessing nodes, whose editor can be opened

VARIABLES
  nodes,             \* useStore.nodes
  edges,             \* useStore.edges
  projects,          \* useStore.projects
  currentProjectId,  \* useStore.currentProjectId
  runs,              \* the invocations of executeNode, in the order they started
  timers,            \* pending setTimeout callbacks of handleEditorSave
  nextId,            \* number of ids crypto.randomUUID() has returned
  now,               \* Date.now()
  userOps,           \* user gestures made so far
  materialized,      \* history: <<source id, result id>> of every result node created
  last               \* history: the last step taken and the store and runs before it

vars == <<nodes, edges, projects, currentProjectId, runs, timers, nextId, now,
          userOps, materialized, last>>

NoProject == "null"

Init ==
  /\ nodes = <<>>
  /\ edges = <<>>
  /\ projects \in {<<p>> : p \in StoredProjects}
  /\ currentProjectId = NoProject
  /\ runs = <<>>
  /\ timers = {}
  /\ nextId = 0
  /\ now = 0
  /\ userOps = 0
  /\ materialized = {}
  /\ last = [act |-> "init", nodes |-> <<>>, edges |-> <<>>, runs |-> <<>>]

(***************************************************************************)
(* Sequence helpers (Array.prototype.filter / find / some).                *)
(***************************************************************************)
NodeIds(ns) == {ns[i].id : i \in 1..Len(ns)}

HasNode(ns, id) == id \in NodeIds(ns)

FindNode(ns, id) == ns[CHOOSE i \in 1..Len(ns) : ns[i].id = id /\ \A j \in 1..(i-1) : ns[j].id /= id]

Min2(a, b) == IF a <= b THEN a ELSE b

(***************************************************************************)
(* Store operations (zustand), as functions of the collections.            *)
(***************************************************************************)
\* { ...node.data, ...data } on the node with that id, every other node as it is
\* variant: the patch goes to every node, whatever its id
updateEveryNode(ns, nodeId, data) ==
  [i \in 1..Len(ns) |->
     [f \in DOMAIN ns[i] |-> IF f \in DOMAIN data THEN data[f] ELSE ns[i][f]]]

\* variant: the patch replaces the data of the node instead of being merged into it
updateNodeDataReplacing(ns, nodeId, data) ==
  [i \in 1..Len(ns) |->
     IF ns[i].id = nodeId
       THEN [f \in DOMAIN ns[i] |->
               IF f \in DOMAIN data THEN data[f] ELSE NewNode(ns[i].id, ns[i].type)[f]]
       ELSE ns[i]]

\* updateNodeData: the node with this id gets { ...data, ...patch }; the others are kept
updateNodeData(ns, nodeId, data) ==
  [i \in 1..Len(ns) |->
     IF ns[i].id = nodeId
       THEN [f \in DOMAIN ns[i] |-> IF f \in DOMAIN data THEN data[f] ELSE ns[i][f]]
       ELSE ns[i]]

\* variant: the new node replaces the list instead of extending it
addNodeAlone(ns, node) == <<node>>

addNode(ns, node) == Append(ns, node)

\* reactflow addEdge: an existing connection (same ends, same handles) is not added twice
connectionExists(es, edge) ==
  \E i \in 1..Len(es) :
     /\ es[i].source = edge.source
     /\ es[i].target = edge.target
     /\ es[i].sourceHandle = edge.sourceHandle
     /\ es[i].targetHandle = edge.targetHandle

onConnect(es, connection) ==
  IF connectionExists(es, connection) THEN es ELSE Append(es, connection)

(***************************************************************************)
(* getIncomingData: the texts and images a node receives over its edges.   *)
(***************************************************************************)
OrderKey(e) == IF e.order = NoNum THEN 0 ELSE e.order   \* (a.data?.order || 0)

\* variant: an element goes before the elements of equal order
InsertBeforeEqual(s, e) ==
  LET p == Cardinality({i \in 1..Len(s) : OrderKey(s[i]) < OrderKey(e)})
  IN  SubSeq(s, 1, p) \o <<e>> \o SubSeq(s, p + 1, Len(s))

\* Array.prototype.sort with the comparator a.order - b.order (stable)
InsertByOrder(s, e) ==
  LET p == Cardinality({i \in 1..Len(s) : OrderKey(s[i]) <= OrderKey(e)})
  IN  SubSeq(s, 1, p) \o <<e>> \o SubSeq(s, p + 1, Len(s))

RECURSIVE SortByOrder(_)
SortByOrder(s) ==
  IF s = <<>> THEN <<>>
  ELSE InsertByOrder(SortByOrder(SubSeq(s, 1, Len(s) - 1)), s[Len(s)])

\* variant: an edge without a target handle is not a text edge
IsTextHandleNamed(h) == h \in {"text", "anchor", "sequence"}

IsTextHandle(h) == h \in {NoVal, "", "text", "anchor", "sequence"}

RECURSIVE CollectTexts(_, _)
CollectTexts(ns, es) ==
  IF es = <<>> THEN <<>>
  ELSE LET e == Head(es)
           c == IF HasNode(ns, e.source) THEN FindNode(ns, e.source).content ELSE <<>>
       IN  (IF c /= <<>> THEN <<c>> ELSE <<>>) \o CollectTexts(ns, Tail(es))

RECURSIVE CollectImages(_, _)
CollectImages(ns, es) ==
  IF es = <<>> THEN <<>>
  ELSE LET e == Head(es)
           u == IF HasNode(ns, e.source) THEN FindNode(ns, e.source).url ELSE NoVal
       IN  (IF Truthy(u) THEN <<u>> ELSE <<>>) \o CollectImages(ns, Tail(es))

\* if (sourceNode?.data?.url) { images.push(url); if (remark) imageRemarks.push(remark) }
RECURSIVE CollectRemarks(_, _)
CollectRemarks(ns, es) ==
  IF es = <<>> THEN <<>>
  ELSE LET e == Head(es)
           src == FindNode(ns, e.source)
           has == HasNode(ns, e.source) /\ Truthy(src.url) /\ Truthy(src.remark)
       IN  (IF has THEN <<src.remark>> ELSE <<>>) \o CollectRemarks(ns, Tail(es))

getIncomingData(ns, es, targetNodeId) ==
  LET incomingEdges == SelectSeq(es, LAMBDA e : e.target = targetNodeId)
      textEdges == SelectSeq(incomingEdges, LAMBDA e : IsTextHandle(e.targetHandle))
      imageEdges == SortByOrder(SelectSeq(incomingEdges, LAMBDA e : e.targetHandle = "image"))
  IN  [texts |-> CollectTexts(ns, textEdges), images |-> CollectImages(ns, imageEdges),
       imageRemarks |-> CollectRemarks(ns, imageEdges)]

\* variant: the sort reorders the store's own edge array
EdgesSortedInPlace(es, targetNodeId) == SortByOrder(es)

\* the store's edge array after getIncomingData: filter() returns a new array, so
\* the in-place sort() reorders that copy and state.edges is as it was
EdgesAfterResolve(es, targetNodeId) == es

\* the remarks section of the prompt: imageRemarks.map((rem, idx) => [image idx+1]: rem)
RemarksSection(node, inputs) ==
  IF node.readImageRemarks /\ Len(inputs.imageRemarks) > 0
    THEN [i \in 1..Len(inputs.imageRemarks) |-> [image |-> i, remark |-> inputs.imageRemarks[i]]]
    ELSE <<>>

(***************************************************************************)
(* One invocation of executeNode.  snap is the node object read at line    *)
(* 271, which the whole invocation keeps using; start is runStartTime.     *)
(***************************************************************************)
\* variant: the model gemini-native gets no path of its own
DispatchIgnoringNative(node) ==
  IF node.type = "promptMerge" THEN "merge"
  ELSE IF node.type = "imageSplit" THEN "split"
  ELSE IF IsExpert(node.type) THEN "expert"
  ELSE IF node.type = "aiImageGen" THEN
         (IF StartsWithComfly(node.model) THEN
                 (IF node.comflyAsync THEN "comflyAsync" ELSE "comflySync")
          ELSE "grsaiDraw")
  ELSE IF node.type = "aiVideoGen" THEN
         (IF StartsWithComfly(node.model) THEN "comflyVideo" ELSE "grsaiVideo")
  ELSE "none"

DispatchPath(node) ==
  IF node.type = "promptMerge" THEN "merge"
  ELSE IF node.type = "imageSplit" THEN "split"
  ELSE IF IsExpert(node.type) THEN "expert"
  ELSE IF node.type = "aiImageGen" THEN
         (IF node.model = "gemini-native" THEN "native"
          ELSE IF StartsWithComfly(node.model) THEN
                 (IF node.comflyAsync THEN "comflyAsync" ELSE "comflySync")
          ELSE "grsaiDraw")
  ELSE IF node.type = "aiVideoGen" THEN
         (IF StartsWithComfly(node.model) THEN "comflyVideo" ELSE "grsaiVideo")
  ELSE "none"

\* the external call a suspension point starts with, per dispatch path
CallAt(path, pc) ==
  CASE pc = "decode" -> "loadImage"
    [] pc = "cell" -> "uploadToImgBB"
    [] pc = "rehost" -> "fetch"
    [] pc = "gen" -> (IF path = "expert" THEN "geminiTextExpert" ELSE "geminiNativeImageGen")
    [] pc = "submit" ->
         (CASE path = "comflyAsync" -> "comflyDrawTask"
            [] path = "comflySync" -> "comflyDraw"
            [] path = "grsaiDraw" -> "grsaiDraw"
            [] path = "comflyVideo" -> "comflyVideo"
            [] path = "grsaiVideo" -> "grsaiVideo")
    [] pc = "poll" ->
         (CASE path = "comflyAsync" -> "pollComflyImageResult"
            [] path = "comflyVideo" -> "pollComflyResult"
            [] path \in {"grsaiDraw", "grsaiVideo"} -> "pollGrsaiResult")

\* no request body has been built
NoPayload == [model |-> NoVal]

\* no poll has been answered yet
NoAnswer == [st |-> "none", url |-> NoVal, reason |-> NoVal, progress |-> 0,
             progressText |-> <<>>]

NewRun(nodeId, node, inputs, t) ==
  [node |-> nodeId, snap |-> node, start |-> t, path |-> DispatchPath(node),
   images |-> inputs.images, texts |-> inputs.texts,
   remarks |-> RemarksSection(node, inputs), shots |-> <<>>, active |-> <<>>,
   anchor |-> <<>>, pc |-> "start", out |-> "running", failed |-> FALSE,
   inPoll |-> FALSE, polls |-> 0, sel |-> <<>>, i |-> 0, acc |-> <<>>,
   remote |-> NoVal, dims |-> <<0, 0>>, pairs |-> 0, answer |-> NoAnswer,
   calls |-> {}, payload |-> NoPayload, project |-> currentProjectId]

\* the store as one value, so that the calls of one synchronous block chain
Store == [nodes |-> nodes, edges |-> edges, nextId |-> nextId, mat |-> materialized]

\* finalizeNode: status, duration and the additional data, in one updateNodeData
finalizeNode(st, run, status, additionalData, t) ==
  [st EXCEPT !.nodes = updateNodeData(st.nodes, run.node,
        additionalData @@ [status |-> status, duration |-> t - run.start])]

\* variant: the result node without its edge
MaterializeNodeOnly(st, src, dtype, label, content, url, handle, pos) ==
  LET resultId == FreshId(st.nextId)
  IN  [nodes |-> addNode(st.nodes, ResultNode(resultId, dtype, label, content, url, pos)),
       edges |-> st.edges,
       nextId |-> st.nextId + 1,
       mat |-> st.mat \cup {<<src, resultId>>}]

\* addNode(result node) followed by storeOnConnect(source -> result)
MaterializeOne(st, src, dtype, label, content, url, handle, pos) ==
  LET resultId == FreshId(st.nextId)
  IN  [nodes |-> addNode(st.nodes, ResultNode(resultId, dtype, label, content, url, pos)),
       edges |-> onConnect(st.edges, NewEdge(src, resultId, handle, handle, NoNum)),
       nextId |-> st.nextId + 1,
       mat |-> st.mat \cup {<<src, resultId>>}]

\* the run ends in success: finalizeNode, then the result node and its edge
Succeed(st, run, additionalData, dtype, label, content, url, handle, t) ==
  [st |-> MaterializeOne(finalizeNode(st, run, "success", additionalData, t),
                         run.node, dtype, label, content, url, handle, RightOf(run.snap)),
   run |-> [run EXCEPT !.pc = "done", !.out = "success"]]

\* finalizeNode(nodeId, 'error', { statusMsg }) : the catch block, or a poll's own return
FailWith(st, run, msg, t) ==
  [st |-> finalizeNode(st, run, "error", [statusMsg |-> msg], t),
   run |-> [run EXCEPT !.pc = "done", !.out = "error", !.failed = TRUE]]

\* an exception: caught by the try of executeNode unless it is raised inside poll(),
\* which executeNode calls without await, so that the rejection is nobody's
Throw(st, run, msg, t) ==
  IF run.inPoll
    THEN [st |-> st, run |-> [run EXCEPT !.pc = "done", !.out = "dead", !.failed = TRUE]]
    ELSE FailWith(st, run, msg, t)

\* the run goes on to its next suspension point, whose call it makes (history)
Goto(st, run, pc) ==
  [st |-> st, run |-> [run EXCEPT !.pc = pc, !.calls = @ \cup {CallAt(run.path, pc)}]]

SetMsg(st, run, msg) ==
  [st EXCEPT !.nodes = updateNodeData(st.nodes, run.node, [statusMsg |-> msg])]

(***************************************************************************)
(* Prompt merger (executeNode, node.type === 'promptMerge'): synchronous.  *)
(***************************************************************************)
DefaultAnchor == <<"unspecified character anchor">>

Blank(line) == line \in {"", " "}           \* l.trim().length === 0

\* variant: the label of the source node is not used
ContentOnly(ns, id, fallback) ==
  IF HasNode(ns, id) /\ FindNode(ns, id).content /= <<>> THEN FindNode(ns, id).content
  ELSE fallback

\* sourceNode?.data?.content || sourceNode?.data?.label || fallback
ContentOrLabel(ns, id, fallback) ==
  IF ~HasNode(ns, id) THEN fallback
  ELSE LET src == FindNode(ns, id)
       IN  IF src.content /= <<>> THEN src.content
           ELSE IF Truthy(src.label) THEN <<src.label>> ELSE fallback

\* variant: the padding repeats the first shot
RECURSIVE PadWithFirst(_, _)
PadWithFirst(shots, targetLen) ==
  IF Len(shots) >= targetLen THEN shots
  ELSE PadWithFirst(Append(shots, shots[1]), targetLen)

\* while (finalShots.length < targetLen) finalShots.push(finalShots[finalShots.length - 1])
RECURSIVE PadToLength(_, _)
PadToLength(shots, targetLen) ==
  IF Len(shots) >= targetLen THEN shots
  ELSE PadToLength(Append(shots, shots[Len(shots)]), targetLen)

TargetLen(gridType) == IF gridType = "3x3" THEN 9 ELSE 4

MergeShots(ns, es, node) ==
  LET incomingEdges == SelectSeq(es, LAMBDA e : e.target = node.id)
      sequenceEdges == SortByOrder(SelectSeq(incomingEdges, LAMBDA e : e.targetHandle = "sequence"))
      localShots == [i \in 1..Len(SelectSeq(node.sequenceContent, LAMBDA l : ~Blank(l))) |->
                       <<SelectSeq(node.sequenceContent, LAMBDA l : ~Blank(l))[i]>>]
      linked == [i \in 1..Len(sequenceEdges) |-> ContentOrLabel(ns, sequenceEdges[i].source, <<>>)]
  IN  IF Len(sequenceEdges) > 0 THEN SelectSeq(linked, LAMBDA c : c /= <<>>) ELSE localShots

MergeAnchor(ns, es, node) ==
  LET anchorEdges == SelectSeq(es, LAMBDA e : e.target = node.id /\ e.targetHandle = "anchor")
      anchor == IF node.characterAnchor /= <<>> THEN node.characterAnchor ELSE DefaultAnchor
  IN  IF anchorEdges = <<>> THEN anchor ELSE ContentOrLabel(ns, anchorEdges[1].source, anchor)

RECURSIVE ShotLines(_, _)
ShotLines(activeShots, i) ==
  IF i > Len(activeShots) THEN <<>>
  ELSE <<"Shot " \o ToString(i)>> \o activeShots[i] \o ShotLines(activeShots, i + 1)

MergedPrompt(gridType, anchor, activeShots) ==
  <<"TASK " \o gridType, "CHARACTER ANCHORS">> \o anchor
    \o <<"SEQUENCE CONTENT">> \o ShotLines(activeShots, 1)
    \o <<"TECHNICAL REQUIREMENTS " \o gridType>>

ExecMerge(st, run, t) ==
  LET node == run.snap
      shots == MergeShots(st.nodes, st.edges, node)
      gridType == IF Truthy(node.gridType) THEN node.gridType ELSE "3x3"
      activeShots == SubSeq(PadToLength(shots, TargetLen(gridType)), 1, TargetLen(gridType))
      anchor == MergeAnchor(st.nodes, st.edges, node)
  IN  IF shots = <<>> THEN Throw(st, run, "missing sequence content", t)
      ELSE Succeed(st, [run EXCEPT !.shots = shots, !.active = activeShots, !.anchor = anchor],
                   [statusMsg |-> "Merged"], "text", "merged prompt",
                   MergedPrompt(gridType, anchor, activeShots), NoVal, "text", t)

(***************************************************************************)
(* executeNode up to its first suspension point.                           *)
(***************************************************************************)
ModeMsg(images) ==
  IF Len(images) = 1 THEN "First Frame Mode..."
  ELSE IF Len(images) = 2 THEN "I2V Start-End Mode..."
  ELSE IF Len(images) >= 3 THEN "Reference Image Mode..."
  ELSE "Generating..."

\* model.split(':')[1] for a comfly model, else model || 'veo3.1-fast'
ActualModel(model) ==
  CASE model = "comfly:veo3.1-fast" -> "veo3.1-fast"
    [] model = "comfly:nano-banana" -> "nano-banana"
    [] ~Truthy(model) -> "veo3.1-fast"
    [] OTHER -> model

\* the body comflyVideo posts: images is urls, or undefined (here <<>>) without urls
comflyVideo(model, urls) == [model |-> model, images |-> urls]

\* the body grsaiVideo posts; urls: null is <<>> here
prepareVeoPayload(model, urls) ==
  LET payload ==
        IF Len(urls) = 1
          THEN [model |-> model, firstFrameUrl |-> urls[1], lastFrameUrl |-> "", urls |-> <<>>]
        ELSE IF Len(urls) = 2
          THEN [model |-> model, firstFrameUrl |-> urls[1], lastFrameUrl |-> urls[2],
                urls |-> <<>>]
        ELSE IF Len(urls) >= 3
          THEN [model |-> model, firstFrameUrl |-> "", lastFrameUrl |-> "",
                urls |-> SubSeq(urls, 1, 3)]
        ELSE [model |-> model, firstFrameUrl |-> "", lastFrameUrl |-> "", urls |-> <<>>]
  IN  IF model = "sora-2"
        THEN [model |-> model, url |-> IF urls = <<>> THEN "" ELSE urls[1]]
        ELSE payload

\* variant: the splitter loads its image without looking at the resolved inputs
ExecSplitUnchecked(st, run, t) ==
  Goto(SetMsg(st, run, "Processing Split..."), run, "decode")

\* if (inputs.images.length === 0) throw ...; statusMsg; await (image load)
ExecSplit(st, run, t) ==
  IF run.images = <<>> THEN Throw(st, run, "missing input image", t)
  ELSE Goto(SetMsg(st, run, "Processing Split..."), run, "decode")

ExecStart(st, run, t) ==
  CASE run.path = "merge" -> ExecMerge(st, run, t)
    [] run.path = "split" -> ExecSplit(st, run, t)
    [] run.path \in {"expert", "native"} ->
         IF run.images /= <<>> THEN Goto(SetMsg(st, run, "Processing Media..."), run, "gen")
         ELSE Goto(st, run, "gen")
    [] run.path = "comflyAsync" -> Goto(SetMsg(st, run, "Queueing Task..."), run, "submit")
    [] run.path \in {"comflySync", "grsaiDraw"} -> Goto(st, run, "submit")
    [] run.path = "comflyVideo" ->
         Goto(SetMsg(st, run, ModeMsg(run.images)),
              [run EXCEPT !.payload = comflyVideo(ActualModel(run.snap.model), run.images)],
              "submit")
    [] run.path = "grsaiVideo" ->
         Goto(SetMsg(st, run, ModeMsg(run.images)),
              [run EXCEPT !.payload = prepareVeoPayload(ActualModel(run.snap.model), run.images)],
              "submit")

Log(act) == last' = [act |-> act, nodes |-> nodes, edges |-> edges, runs |-> runs]

\* the effect of one synchronous block on the store and on run r
Apply(r, eff) ==
  /\ nodes' = eff.st.nodes
  /\ edges' = eff.st.edges
  /\ nextId' = eff.st.nextId
  /\ materialized' = eff.st.mat
  /\ runs' = [runs EXCEPT ![r] = eff.run]

Executable(ns, nodeId) ==
  HasNode(ns, nodeId) /\ FindNode(ns, nodeId).type \notin PassiveTypes

\* variant: the node is marked as running before its type is looked at
ExecuteOnMarking(S, nodeId) ==
  IF ~Executable(S.nodes, nodeId)
    THEN [S EXCEPT !.nodes = updateNodeData(S.nodes, nodeId,
                      [status |-> "loading", progress |-> 0, statusMsg |-> "Running..."])]
  ELSE LET node == FindNode(S.nodes, nodeId)
           t == S.now + 1
           run == NewRun(nodeId, node, getIncomingData(S.nodes, S.edges, nodeId), t)
           st1 == [nodes |-> updateNodeData(S.nodes, nodeId,
                      [status |-> "loading", progress |-> 0, statusMsg |-> "Running...",
                       startTime |-> t, duration |-> NoNum]),
                   edges |-> EdgesAfterResolve(S.edges, nodeId),
                   nextId |-> S.nextId, mat |-> S.mat]
           eff == ExecStart(st1, run, t)
       IN  [nodes |-> eff.st.nodes, edges |-> eff.st.edges, nextId |-> eff.st.nextId,
            mat |-> eff.st.mat, runs |-> Append(S.runs, eff.run), now |-> t]

\* executeNode(nodeId), as a function of the state S = store + runs + clock
ExecuteOn(S, nodeId) ==
  IF ~Executable(S.nodes, nodeId) THEN S
  ELSE LET node == FindNode(S.nodes, nodeId)
           t == S.now + 1
           run == NewRun(nodeId, node, getIncomingData(S.nodes, S.edges, nodeId), t)
           st1 == [nodes |-> updateNodeData(S.nodes, nodeId,
                      [status |-> "loading", progress |-> 0, statusMsg |-> "Running...",
                       startTime |-> t, duration |-> NoNum]),
                   edges |-> EdgesAfterResolve(S.edges, nodeId),
                   nextId |-> S.nextId, mat |-> S.mat]
           eff == ExecStart(st1, run, t)
       IN  [nodes |-> eff.st.nodes, edges |-> eff.st.edges, nextId |-> eff.st.nextId,
            mat |-> eff.st.mat, runs |-> Append(S.runs, eff.run), now |-> t]

Whole == [nodes |-> nodes, edges |-> edges, nextId |-> nextId, mat |-> materialized,
          runs |-> runs, now |-> now]

SetWhole(S) ==
  /\ nodes' = S.nodes
  /\ edges' = S.edges
  /\ nextId' = S.nextId
  /\ materialized' = S.mat
  /\ runs' = S.runs
  /\ now' = S.now

\* window.executeNodeById(nodeId) on an executable node
Execute(nodeId) ==
  /\ Len(runs) < MaxRuns
  /\ Executable(nodes, nodeId)
  /\ SetWhole(ExecuteOn(Whole, nodeId))
  /\ Log("run")
  /\ UNCHANGED <<projects, currentProjectId, timers, userOps>>

\* window.executeNodeById(nodeId) with an id that is not in the graph or that is the
\* id of an input, result or processing node; the log names the type that was met
ExecuteIgnored(nodeId) ==
  /\ ~Executable(nodes, nodeId)
  /\ SetWhole(ExecuteOn(Whole, nodeId))
  /\ Log("ignored " \o (IF HasNode(nodes, nodeId) THEN FindNode(nodes, nodeId).type
                         ELSE "missing"))
  /\ UNCHANGED <<projects, currentProjectId, timers, userOps>>

RECURSIVE ExecuteAll(_, _)
ExecuteAll(S, ids) ==
  IF ids = <<>> THEN S ELSE ExecuteAll(ExecuteOn(S, Head(ids)), Tail(ids))

\* the Run button: nodes.filter(n => n.selected).forEach(n => executeNode(n.id))
RunSelected ==
  LET selectedNodes == SelectSeq(nodes, LAMBDA n : n.selected)
      ids == [i \in 1..Len(selectedNodes) |-> selectedNodes[i].id]
  IN  /\ \E i \in 1..Len(ids) : Executable(nodes, ids[i])
      /\ Len(runs) + Len(SelectSeq(ids, LAMBDA id : Executable(nodes, id))) <= MaxRuns
      /\ SetWhole(ExecuteAll(Whole, ids))
      /\ Log("run")
      /\ UNCHANGED <<projects, currentProjectId, timers, userOps>>

DigitChars == <<"0", "1", "2", "3", "4", "5", "6", "7", "8", "9">>
IsDigit(c) == \E d \in 1..10 : DigitChars[d] = c
DigitVal(c) == (CHOOSE d \in 1..10 : DigitChars[d] = c) - 1

\* the value of the longest prefix of digits
RECURSIVE DigitsValue(_, _)
DigitsValue(s, acc) ==
  IF s = <<>> \/ ~IsDigit(Head(s)) THEN acc
  ELSE DigitsValue(Tail(s), 10 * acc + DigitVal(Head(s)))

\* parseInt(s, 10): an optional sign, then the longest prefix of digits; NaN without one
ParseInt(s) ==
  LET signed == s /= <<>> /\ Head(s) \in {"-", "+"}
      body == IF signed THEN Tail(s) ELSE s
  IN  IF body = <<>> \/ ~IsDigit(Head(body)) THEN [isNaN |-> TRUE, n |-> 0]
      ELSE [isNaN |-> FALSE,
            n |-> IF signed /\ Head(s) = "-" THEN 0 - DigitsValue(body, 0)
                  ELSE DigitsValue(body, 0)]

\* progStr.replace('%', ''): the first percent sign goes
RECURSIVE DropPercent(_)
DropPercent(s) ==
  IF s = <<>> THEN s
  ELSE IF Head(s) = "%" THEN Tail(s)
  ELSE <<Head(s)>> \o DropPercent(Tail(s))

\* parseInt((taskInfo.progress || '0%').replace('%', ''), 10) || 0
ComflyProgress(text) ==
  LET progStr == IF text = <<>> THEN <<"0", "%">> ELSE text
      parsed == ParseInt(DropPercent(progStr))
  IN  IF parsed.isNaN THEN 0 ELSE parsed.n

(***************************************************************************)
(* The external calls.  Each one is a suspension point; the action is the  *)
(* block that runs when the call settles, with the call's outcome.         *)
(* Consecutive awaits between which the code reads and writes no shared    *)
(* state (fetch, blob, upload; the timer and the request of a poll) are    *)
(* one suspension point: they settle together, or the first failure is     *)
(* the outcome.                                                            *)
(***************************************************************************)
ExpertOutputCounts == {0, 2, 17}      \* pairs in a text-generation answer
ImageDims == {<<600, 600>>, <<40, 600>>}
\* what a poll request can bring: a rejection, or the provider's task record with its
\* status, result reference, failure reason and progress
PollAnswers == {[st |-> "throw", url |-> NoVal, reason |-> NoVal, progress |-> 0, progressText |-> <<>>],
                [st |-> "failed", url |-> NoVal, reason |-> NoVal, progress |-> 0, progressText |-> <<>>],
                [st |-> "failed", url |-> NoVal, reason |-> "quota exceeded", progress |-> 0,
                 progressText |-> <<>>],
                [st |-> "done", url |-> "remote", reason |-> NoVal, progress |-> 100,
                 progressText |-> <<"1", "0", "0", "%">>],
                [st |-> "done", url |-> NoVal, reason |-> NoVal, progress |-> 100,
                 progressText |-> <<"1", "0", "0", "%">>],
                [st |-> "pending", url |-> "remote", reason |-> NoVal, progress |-> 50,
                 progressText |-> <<"5", "0", "%">>],
                [st |-> "pending", url |-> NoVal, reason |-> NoVal, progress |-> 50,
                 progressText |-> <<"5", "0", "%">>]}

\* answers of a provider that reports a percentage above one hundred
OverReports == {[st |-> "pending", url |-> NoVal, reason |-> NoVal, progress |-> 150,
                 progressText |-> <<"1", "5", "0", "%">>]}

\* a || b on strings
OrElse(a, b) == IF Truthy(a) THEN a ELSE b

Active(r, pc) == r \in 1..Len(runs) /\ runs[r].out = "running" /\ runs[r].pc = pc

Resume(r, eff) ==
  /\ Apply(r, eff)
  /\ Log("run")
  /\ UNCHANGED <<projects, currentProjectId, timers, now, userOps>>

ExpertOutput(i) == [title |-> "title " \o ToString(i), prompt |-> <<"prompt " \o ToString(i)>>]

\* y: node.position.y + (index - (result.outputs.length - 1) / 2) * 220, for the
\* output of index i - 1 of an answer of n outputs
OutputPos(node, i, n) == <<node.pos[1] + 400, node.pos[2] + (i - 1) * 220 - (n - 1) * 110>>

\* variant: a result node carries the title of its output as content
AppendOutputsTitled(st, run, k, n) ==
      [nodes |-> st.nodes \o [i \in 1..k |->
                    ResultNode(FreshId(st.nextId + i - 1), "text", ExpertOutput(i).title,
                               <<ExpertOutput(i).title>>, NoVal, OutputPos(run.snap, i, n))],
       edges |-> st.edges \o [i \in 1..k |->
                    NewEdge(run.node, FreshId(st.nextId + i - 1), "text", "text", NoNum)],
       nextId |-> st.nextId + k,
       mat |-> st.mat \cup {<<run.node, FreshId(st.nextId + i - 1)>> : i \in 1..k}]

\* setNodes([...currentNodes, ...newResultNodes]); setEdges([...currentEdges, ...newEdges])
\* for the first k of the n outputs of an expert answer
AppendOutputs(st, run, k, n) ==
      [nodes |-> st.nodes \o [i \in 1..k |->
                    ResultNode(FreshId(st.nextId + i - 1), "text", ExpertOutput(i).title,
                               ExpertOutput(i).prompt, NoVal, OutputPos(run.snap, i, n))],
       edges |-> st.edges \o [i \in 1..k |->
                    NewEdge(run.node, FreshId(st.nextId + i - 1), "text", "text", NoNum)],
       nextId |-> st.nextId + k,
       mat |-> st.mat \cup {<<run.node, FreshId(st.nextId + i - 1)>> : i \in 1..k}]

\* variant: every output of the answer, however many
ExpertResultsAll(st, run, n) == AppendOutputs(st, run, n, n)

MaxOutputs == 16     \* result.outputs.slice(0, 16)

\* result.outputs.slice(0, 16).forEach(...): at most sixteen outputs are materialized
ExpertResults(st, run, n) == AppendOutputs(st, run, Min2(n, MaxOutputs), n)

ImageSuccess(st, run, msg, t) ==
  Succeed(st, run, [url |-> "hosted", progress |-> 100, statusMsg |-> msg],
          "image", NoVal, <<>>, "hosted", "image", t)

\* expert: await fetchImageAsBase64 (if images), await geminiTextExpert;
\* native: await fetchImageAsBase64 (if images), geminiNativeImageGen, uploadToImgBB
GenDone(r, ok, n) ==
  /\ Active(r, "gen")
  /\ runs[r].path = "native" => n = 0
  /\ Resume(r,
       IF ~ok THEN Throw(Store, runs[r], "generation failed", now)
       ELSE IF runs[r].path = "native" THEN ImageSuccess(Store, runs[r], "Success", now)
       ELSE [st |-> ExpertResults(
                      finalizeNode(Store, runs[r], "success",
                                   [content |-> <<"summary">>, statusMsg |-> "Success"], now),
                      runs[r], n),
             run |-> [runs[r] EXCEPT !.pc = "done", !.out = "success", !.pairs = n]])

\* await comflyDrawTask / comflyDraw / grsaiDraw / comflyVideo / grsaiVideo;
\* on the asynchronous paths poll() is then called, without await
SubmitDone(r, ok) ==
  /\ Active(r, "submit")
  /\ Resume(r,
       IF ~ok THEN Throw(Store, runs[r], "submit failed", now)
       ELSE IF runs[r].path = "comflySync"
              THEN Goto(Store, [runs[r] EXCEPT !.remote = "remote"], "rehost")
       ELSE Goto(Store, [runs[r] EXCEPT !.inPoll = TRUE], "poll"))

\* variant: a retry cap, the first non-terminal answer ends the operation in error
PollAgainCapped(st, run, progress) == FailWith(st, run, "Timed out", 0)

\* updateNodeData(nodeId, { progress, statusMsg }); setTimeout(poll, ...)
PollAgain(st, run, progress) ==
  [st |-> [st EXCEPT !.nodes = updateNodeData(st.nodes, run.node,
                       [progress |-> progress, statusMsg |-> ToString(progress) \o "%"])],
   run |-> [run EXCEPT !.pc = "poll", !.polls = run.polls + 1]]

\* variant: the completion does not end the poll cycle, the next poll is scheduled
VideoSuccessAndPoll(st, run, url, t) ==
  LET done == Succeed(st, run, [url |-> url, progress |-> 100, statusMsg |-> "Success"],
                      "video", NoVal, <<>>, url, "video", t)
  IN  [st |-> done.st, run |-> [run EXCEPT !.polls = run.polls + 1]]

\* finalizeNode success, addNode, storeOnConnect of a video result
VideoSuccess(st, run, url, t) ==
  Succeed(st, run, [url |-> url, progress |-> 100, statusMsg |-> "Success"],
          "video", NoVal, <<>>, url, "video", t)

\* one answer of the provider to poll(), per dispatch path
PollOn(st, run, ans, t) ==
  IF ans.st = "throw" THEN Throw(st, run, "poll failed", t)
  ELSE CASE run.path = "comflyAsync" ->
              IF ans.st = "failed"
                THEN FailWith(st, run, OrElse(ans.reason, "Generation Failed"), t)
              ELSE IF ans.st = "done" \/ Truthy(ans.url) THEN
                     (IF ~Truthy(ans.url)
                        THEN FailWith(st, run, "No URL found in success result", t)
                        ELSE Goto(SetMsg(st, run, "Uploading Result..."),
                                  [run EXCEPT !.remote = ans.url], "rehost"))
              ELSE PollAgain(st, run, ComflyProgress(ans.progressText))
         [] run.path = "grsaiDraw" ->
              IF ans.st = "failed" THEN FailWith(st, run, "Violated/Failed", t)
              ELSE IF ans.st = "done" THEN Goto(st, [run EXCEPT !.remote = ans.url], "rehost")
              ELSE PollAgain(st, run, ans.progress)
         [] run.path = "comflyVideo" ->
              IF ans.st = "failed"
                THEN FailWith(st, run, OrElse(ans.reason, "Generation Failed"), t)
              ELSE IF ans.st = "done" \/ Truthy(ans.url) THEN VideoSuccess(st, run, ans.url, t)
              ELSE PollAgain(st, run, ComflyProgress(ans.progressText))
         [] run.path = "grsaiVideo" ->
              IF ans.st = "failed" THEN FailWith(st, run, "Generation Failed", t)
              ELSE IF ans.st = "done" THEN VideoSuccess(st, run, ans.url, t)
              ELSE PollAgain(st, run, ans.progress)

\* poll() with the answer it has received, which the invocation remembers (history)
PollStep(st, run, ans, t) == PollOn(st, [run EXCEPT !.answer = ans], ans, t)

\* the answer to pollComflyImageResult / pollGrsaiResult / pollComflyResult; a
\* non-terminal answer ends in setTimeout(poll, ...), whose firing sends the next one
PollDone(r, ans) ==
  /\ Active(r, "poll")
  /\ PollStep(Store, runs[r], ans, now).run.polls > runs[r].polls => runs[r].polls < MaxPolls
  /\ Resume(r, PollStep(Store, runs[r], ans, now))

\* await fetch(remoteUrl), await imgRes.blob(), await uploadToImgBB(blob)
RehostDone(r, ok) ==
  /\ Active(r, "rehost")
  /\ Resume(r, IF ok THEN ImageSuccess(Store, runs[r], "Done", now)
               ELSE Throw(Store, runs[r], "fetch or upload failed", now))

(***************************************************************************)
(* Image splitter (executeNode, node.type === 'imageSplit').               *)
(***************************************************************************)
GridCols(gridType) == IF gridType = "3x3" THEN 3 ELSE 2

Separators == {",", " "}                 \* the regular expression [,\s]+
\* String.prototype.trim on a sequence of characters
RECURSIVE Trim(_)
Trim(s) ==
  IF s = <<>> THEN s
  ELSE IF Head(s) = " " THEN Trim(Tail(s))
  ELSE IF s[Len(s)] = " " THEN Trim(SubSeq(s, 1, Len(s) - 1))
  ELSE s

\* selectStr.split(/[,\s]+/): the pieces between the runs of separators, the empty
\* piece before a leading run and after a trailing one included
RECURSIVE Split(_)
Split(s) ==
  IF \A i \in 1..Len(s) : s[i] \notin Separators THEN <<s>>
  ELSE LET i == CHOOSE k \in 1..Len(s) :
                   s[k] \in Separators /\ \A m \in 1..(k - 1) : s[m] \notin Separators
           rest == SubSeq(s, i, Len(s))
           j == IF \A k \in 1..Len(rest) : rest[k] \in Separators THEN Len(rest) + 1
                ELSE CHOOSE k \in 1..Len(rest) :
                        rest[k] \notin Separators /\ \A m \in 1..(k - 1) : rest[m] \in Separators
       IN  <<SubSeq(s, 1, i - 1)>> \o Split(SubSeq(rest, j, Len(rest)))

\* variant: the integers are taken as they are parsed, in range or not
IndicesUnfiltered(gridSelect, totalCells) ==
  LET parsed == [i \in 1..Len(Split(gridSelect)) |-> ParseInt(Split(gridSelect)[i])]
      kept == SelectSeq(parsed, LAMBDA p : ~p.isNaN)
  IN  [i \in 1..Len(kept) |-> kept[i].n]

\* selectStr = gridSelect || '0'; "0" is every cell, otherwise the parsed integers
\* within 1..totalCells
IndicesToExtract(gridSelect, totalCells) ==
  LET selectStr == IF gridSelect = <<>> THEN <<"0">> ELSE gridSelect
      parsed == [i \in 1..Len(Split(selectStr)) |-> ParseInt(Split(selectStr)[i])]
      kept == SelectSeq(parsed, LAMBDA p : ~p.isNaN /\ p.n >= 1 /\ p.n <= totalCells)
  IN  IF Trim(selectStr) = <<"0">> THEN [i \in 1..totalCells |-> i]
      ELSE [i \in 1..Len(kept) |-> kept[i].n]

\* variant: an extracted dimension of zero is accepted
TrimNegative(dims, cols, trim) ==
  dims[1] - 2 * trim * cols < 0 \/ dims[2] - 2 * trim * cols < 0

\* sw <= 0 || sh <= 0, with sw = img.width / cols - trim * 2 (and sh alike)
TrimTooLarge(dims, cols, trim) ==
  dims[1] - 2 * trim * cols <= 0 \/ dims[2] - 2 * trim * cols <= 0

SplitGrid(run) == IF Truthy(run.snap.gridType) THEN run.snap.gridType ELSE "2x2"

SplitTrim(run) == IF run.snap.gridTrim = NoNum THEN 10 ELSE run.snap.gridTrim   \* ?? 10

\* the head of one loop iteration, up to the await of toBlob and uploadToImgBB
CellHead(st, run, t) ==
  IF TrimTooLarge(run.dims, GridCols(SplitGrid(run)), SplitTrim(run))
    THEN Throw(st, run, "trim too large", t)
    ELSE Goto(st, run, "cell")

\* img.onload / img.onerror, then the selection and the first iteration
DecodeDone(r, ok, dims) ==
  /\ Active(r, "decode")
  /\ LET cols == GridCols(SplitGrid(runs[r]))
         sel == IndicesToExtract(runs[r].snap.gridSelect, cols * cols)
         run == [runs[r] EXCEPT !.dims = dims, !.sel = sel]
     IN  Resume(r,
           IF ~ok THEN Throw(Store, runs[r], "image load failed", now)
           ELSE IF sel = <<>> THEN Throw(Store, run, "no valid selection index", now)
           ELSE CellHead(Store, run, now))

\* setNodes([...currentNodes, ...newOutputNodes]); setEdges([...]); finalizeNode
SplitCommit(st, run, t) ==
  LET acc == run.acc
      st1 == [st EXCEPT
                !.nodes = st.nodes \o [i \in 1..Len(acc) |->
                   ResultNode(acc[i].id, "image", "cell " \o ToString(acc[i].idx), <<>>,
                              "split_" \o ToString(acc[i].idx), acc[i].pos)],
                !.edges = st.edges \o [i \in 1..Len(acc) |->
                   NewEdge(run.node, acc[i].id, "image", "image", NoNum)],
                !.mat = st.mat \cup {<<run.node, acc[i].id>> : i \in 1..Len(acc)}]
  IN  [st |-> finalizeNode(st1, run, "success", [statusMsg |-> "Split Done"], t),
       run |-> [run EXCEPT !.pc = "done", !.out = "success"]]

\* y: node.position.y + i * 220 - (indicesToExtract.length - 1) * 110, for loop index i
CellPos(run) ==
  <<run.snap.pos[1] + 400, run.snap.pos[2] + run.i * 220 - (Len(run.sel) - 1) * 110>>

\* variant: the cell's result node goes to the store as soon as it is uploaded
PushCellToStore(st, run, resultId) ==
  [st |-> [st EXCEPT !.nextId = st.nextId + 1,
                     !.nodes = addNode(st.nodes,
                                  ResultNode(resultId, "image", "cell", <<>>, "split",
                                             CellPos(run)))],
   run |-> [run EXCEPT !.i = run.i + 1,
                       !.acc = Append(run.acc, [id |-> resultId, idx |-> run.sel[run.i + 1],
                                                pos |-> CellPos(run)])]]

\* newOutputNodes.push(newNode); newOutputEdges.push(...): local to the invocation
PushCell(st, run, resultId) ==
  [st |-> [st EXCEPT !.nextId = st.nextId + 1],
   run |-> [run EXCEPT !.i = run.i + 1,
                       !.acc = Append(run.acc, [id |-> resultId, idx |-> run.sel[run.i + 1],
                                                pos |-> CellPos(run)])]]

\* the upload of cell i settles: the cell is pushed, the progress written, and the
\* loop goes on to the next cell or, after the last one, to the commit
CellDone(r, ok) ==
  /\ Active(r, "cell")
  /\ LET run == runs[r]
         n == Len(run.sel)
         pushed == PushCell(Store, run, FreshId(nextId))
         run1 == pushed.run
         st1 == [pushed.st EXCEPT
                   !.nodes = updateNodeData(pushed.st.nodes, run.node,
                                [progress |-> (run1.i * 100) \div n])]
     IN  Resume(r,
           IF ~ok THEN Throw(Store, run, "upload failed", now)
           ELSE IF run1.i < n THEN CellHead(st1, run1, now)
           ELSE SplitCommit(st1, run1, now))

(***************************************************************************)
(* The user's gestures on the store.                                       *)
(***************************************************************************)
UserOp(act) == userOps < MaxUserOps /\ userOps' = userOps + 1 /\ Log(act)

loadProject(id) ==
  /\ UserOp("load")
  /\ \E i \in 1..Len(projects) : projects[i].id = id
  /\ LET project == projects[CHOOSE i \in 1..Len(projects) : projects[i].id = id]
     IN  /\ nodes' = project.nodes
         /\ edges' = project.edges
  /\ currentProjectId' = id
  /\ UNCHANGED <<projects, runs, timers, nextId, now, materialized>>

newProject ==
  /\ UserOp("new")
  /\ nodes' = <<>>
  /\ edges' = <<>>
  /\ currentProjectId' = NoProject
  /\ UNCHANGED <<projects, runs, timers, nextId, now, materialized>>

\* variant: the node goes, its edges stay
deleteNodeOnly(nodeId) ==
  /\ UserOp("deleteNode")
  /\ HasNode(nodes, nodeId)
  /\ nodes' = SelectSeq(nodes, LAMBDA n : n.id /= nodeId)
  /\ UNCHANGED <<edges, projects, currentProjectId, runs, timers, nextId, now, materialized>>

deleteNode(nodeId) ==
  /\ UserOp("deleteNode")
  /\ HasNode(nodes, nodeId)
  /\ nodes' = SelectSeq(nodes, LAMBDA n : n.id /= nodeId)
  /\ edges' = SelectSeq(edges, LAMBDA e : e.source /= nodeId /\ e.target /= nodeId)
  /\ UNCHANGED <<projects, currentProjectId, runs, timers, nextId, now, materialized>>

\* variant: the selected nodes and edges go, the edges of a selected node stay
deleteSelectedOnly ==
  LET selectedNodeIds == {nodes[i].id : i \in {j \in 1..Len(nodes) : nodes[j].selected}}
      selectedEdgeIds == {edges[i].id : i \in {j \in 1..Len(edges) : edges[j].selected}}
  IN  /\ UserOp("delete")
      /\ nodes' = SelectSeq(nodes, LAMBDA n : n.id \notin selectedNodeIds)
      /\ edges' = SelectSeq(edges, LAMBDA e : e.id \notin selectedEdgeIds)
      /\ UNCHANGED <<projects, currentProjectId, runs, timers, nextId, now, materialized>>

\* deleteSelected(): returns at once when nothing is selected
deleteSelected ==
  LET selectedNodeIds == {nodes[i].id : i \in {j \in 1..Len(nodes) : nodes[j].selected}}
      selectedEdgeIds == {edges[i].id : i \in {j \in 1..Len(edges) : edges[j].selected}}
  IN  /\ UserOp("delete")
      /\ IF selectedNodeIds = {} /\ selectedEdgeIds = {}
           THEN UNCHANGED <<nodes, edges>>
           ELSE /\ nodes' = SelectSeq(nodes, LAMBDA n : n.id \notin selectedNodeIds)
                /\ edges' = SelectSeq(edges, LAMBDA e : /\ e.id \notin selectedEdgeIds
                                                        /\ e.source \notin selectedNodeIds
                                                        /\ e.target \notin selectedNodeIds)
      /\ UNCHANGED <<projects, currentProjectId, runs, timers, nextId, now, materialized>>

(***************************************************************************)
(* Image processor: the editor's save (ImageProcessingNode.handleEditorSave)*)
(* and the timer it sets for the connection.                               *)
(***************************************************************************)
handleEditorSave(id) ==
  /\ UserOp("editor")
  /\ LET resultId == FreshId(nextId)
         ns1 == updateNodeData(nodes, id,
                   [url |-> "edited", status |-> "success", statusMsg |-> "Processed"])
     IN  IF HasNode(nodes, id)
           THEN /\ nodes' = addNode(ns1, ResultNode(resultId, "image", "processed", <<>>, "edited",
                                                     RightOf(FindNode(nodes, id))))
                /\ timers' = timers \cup {<<id, resultId>>}
                /\ nextId' = nextId + 1
                /\ materialized' = materialized \cup {<<id, resultId>>}
           ELSE /\ nodes' = ns1
                /\ UNCHANGED <<timers, nextId, materialized>>
  /\ UNCHANGED <<edges, projects, currentProjectId, runs, now>>

\* setTimeout(() => onConnect({ source: id, target: resultId, ... }), 150)
EditorConnect(tm) ==
  /\ tm \in timers
  /\ timers' = timers \ {tm}
  /\ edges' = onConnect(edges, NewEdge(tm[1], tm[2], "image", "image", NoNum))
  /\ Log("timer")
  /\ UNCHANGED <<nodes, projects, currentProjectId, runs, nextId, now, userOps, materialized>>

(***************************************************************************)
(* The system.                                                             *)
(***************************************************************************)
Next ==
  \/ \E p \in StoredProjects : loadProject(p.id)
  \/ newProject
  \/ \E id \in NodeIds(nodes) : deleteNode(id)
  \/ deleteSelected
  \/ \E id \in EditorIds : handleEditorSave(id)
  \/ \E tm \in timers : EditorConnect(tm)
  \/ \E id \in NodeIds(nodes) : Execute(id)
  \/ RunSelected
  \/ \E r \in 1..Len(runs), ok \in BOOLEAN, n \in ExpertOutputCounts : GenDone(r, ok, n)
  \/ \E r \in 1..Len(runs), ok \in BOOLEAN : SubmitDone(r, ok)
  \/ \E r \in 1..Len(runs), ans \in PollAnswers : PollDone(r, ans)
  \/ \E r \in 1..Len(runs), ok \in BOOLEAN : RehostDone(r, ok)
  \/ \E r \in 1..Len(runs), ok \in BOOLEAN, dims \in ImageDims : DecodeDone(r, ok, dims)
  \/ \E r \in 1..Len(runs), ok \in BOOLEAN : CellDone(r, ok)

Spec == Init /\ [][Next]_vars

(***************************************************************************)
(* The asynchronous operations alone, under a fair scheduler: a project is *)
(* open, the user starts executions, and every pending request, timer and  *)
(* upload of every invocation eventually settles.                          *)
(***************************************************************************)
AsyncProjects == {ProjectNative, ProjectDraw, ProjectVideo}

LiveInit ==
  /\ \E p \in AsyncProjects :
        /\ projects = <<p>>
        /\ nodes = p.nodes
        /\ edges = p.edges
        /\ currentProjectId = p.id
  /\ runs = <<>>
  /\ timers = {}
  /\ nextId = 0
  /\ now = 0
  /\ userOps = 1
  /\ materialized = {}
  /\ last = [act |-> "load", nodes |-> <<>>, edges |-> <<>>, runs |-> <<>>]

Settle(r) ==
  \/ \E ok \in BOOLEAN, n \in ExpertOutputCounts : GenDone(r, ok, n)
  \/ \E ok \in BOOLEAN : SubmitDone(r, ok)
  \/ \E ans \in PollAnswers : PollDone(r, ans)
  \/ \E ok \in BOOLEAN : RehostDone(r, ok)

LiveNext ==
  \/ \E id \in NodeIds(nodes) : Execute(id)
  \/ \E r \in 1..MaxRuns : Settle(r)

LiveSpec == LiveInit /\ [][LiveNext]_vars /\ \A r \in 1..MaxRuns : WF_vars(Settle(r))

(***************************************************************************)
(* The input resolver and the prompt merger on their own: executeNode is   *)
(* invoked once on node 1 of a graph drawn from a family of small graphs,  *)
(* a video generator (which resolves its inputs) or a prompt merger, with  *)
(* source nodes 2..5 connected to it in every way.                         *)
(***************************************************************************)
MaxInEdges == 2      \* incoming edges of any handle (one more when all are of one handle)

SourceNodes ==
  <<[NewNode(2, "inputText") EXCEPT !.content = <<"t2">>, !.label = "l2", !.url = "u2"],
    [NewNode(3, "inputImage") EXCEPT !.label = "l3", !.url = "u3", !.remark = "r3"],
    [NewNode(4, "inputText") EXCEPT !.content = <<"t4">>, !.label = NoVal, !.remark = "r4"],
    [NewNode(5, "inputImage") EXCEPT !.label = NoVal, !.url = "u5", !.remark = "r5"]>>

EdgeOrders == {NoNum, 1, 2}

EdgeChoices(handles) ==
  {NewEdge(src, 1, h, h, o) : src \in 2..5, h \in handles, o \in EdgeOrders}

\* the edge arrays of at most n edges in which no connection occurs twice
EdgeLists(choices, n) ==
  {es \in UNION {[1..k -> choices] : k \in 0..n} :
     \A i, j \in 1..Len(es) :
        (i < j /\ es[i].source = es[j].source) => es[i].targetHandle /= es[j].targetHandle}

ResolverTarget == NewNode(1, "aiVideoGen")

MergeTargets ==
  {[NewNode(1, "promptMerge") EXCEPT !.gridType = g, !.sequenceContent = sc,
                                     !.characterAnchor = ca] :
     g \in {NoVal, "2x2", "3x3"},
     sc \in {<<>>, <<"A", " ", "B">>, <<"A", "B", "C", "D", "E">>,
             <<"A", "B", "C", "D", "E", "F", "G", "H", "I", "J">>},
     ca \in {<<>>, <<"hero">>}}

ResolveGraphs ==
  {[nodes |-> <<ResolverTarget>> \o SourceNodes, edges |-> es] :
      es \in EdgeLists(EdgeChoices({NoVal, "text", "anchor", "sequence", "image", "video"}),
                       MaxInEdges)
           \cup EdgeLists(EdgeChoices({"image"}), MaxInEdges + 1)}
  \cup
  {[nodes |-> <<mt>> \o SourceNodes, edges |-> es] :
      mt \in MergeTargets,
      es \in EdgeLists(EdgeChoices({"sequence", "anchor"}), MaxInEdges)}

ResolveInit ==
  /\ \E g \in ResolveGraphs : nodes = g.nodes /\ edges = g.edges
  /\ projects = <<>>
  /\ currentProjectId = NoProject
  /\ runs = <<>>
  /\ timers = {}
  /\ nextId = 0
  /\ now = 0
  /\ userOps = 0
  /\ materialized = {}
  /\ last = [act |-> "init", nodes |-> <<>>, edges |-> <<>>, runs |-> <<>>]

ResolveNext == runs = <<>> /\ Execute(1)

ResolveSpec == ResolveInit /\ [][ResolveNext]_vars

(***************************************************************************)
(* One handler at a time: executeNode is invoked once on node 1, an image  *)
(* splitter, a video generator or a prompt merger drawn from a family of   *)
(* configurations, and the calls of that invocation settle.                *)
(***************************************************************************)
MaxSelTokens == 3    \* pieces of a selection string
MaxImages == 4       \* images connected to a video generator

SelectTokens == {<<"0">>, <<"2">>, <<"5">>, <<"1", "1">>, <<"x">>, <<"3", "x">>}
SelectSeps == {<<",">>, <<" ">>, <<",", " ">>}

RECURSIVE Join(_, _)
Join(ts, sep) ==
  IF ts = <<>> THEN <<>>
  ELSE IF Len(ts) = 1 THEN ts[1]
  ELSE ts[1] \o sep \o Join(Tail(ts), sep)

\* what the user can have typed into the selection field
SelectStrings ==
  {Join(ts, sep) : ts \in UNION {[1..k -> SelectTokens] : k \in 0..MaxSelTokens},
                   sep \in SelectSeps}
  \cup {<<" ", "0", " ">>, <<"0", ",">>, <<"-", "2">>}

ImageSources ==
  [i \in 1..MaxImages |->
     [NewNode(i + 1, "inputImage") EXCEPT !.url = "u" \o ToString(i + 1), !.pos = <<0, 100 * i>>]]

SplitTargets ==
  {[NewNode(1, "imageSplit") EXCEPT !.gridType = g, !.gridSelect = sel, !.gridTrim = 10] :
     g \in {NoVal, "2x2", "3x3"}, sel \in SelectStrings}
  \cup
  {[NewNode(1, "imageSplit") EXCEPT !.gridType = g, !.gridTrim = trim] :
     g \in {NoVal, "2x2", "3x3"}, trim \in {NoNum, 0, 100, 150, 160}}

VideoTargets ==
  {[NewNode(1, "aiVideoGen") EXCEPT !.model = m] :
     m \in {NoVal, "comfly:veo3.1-fast", "veo3.1-fast", "sora-2"}}

\* a prompt merger with one node of each type that executeNode ignores
PassiveGraph ==
  [nodes |-> <<NewNode(1, "promptMerge"),
               [NewNode(2, "inputText") EXCEPT !.content = <<"a">>],
               ImageSources[2],
               [NewNode(4, "imageProcessing") EXCEPT !.pos = <<400, 200>>],
               ResultNode(5, "text", NoVal, <<"a">>, NoVal, <<400, 0>>)>>,
   edges |-> <<NewEdge(2, 1, "text", "sequence", 1), NewEdge(3, 4, "image", "image", 1),
               NewEdge(1, 5, "text", "text", NoNum)>>]

HandlerGraphs ==
  {[nodes |-> <<t, ImageSources[1]>>, edges |-> es] :
      t \in SplitTargets, es \in {<<>>, <<NewEdge(2, 1, "image", "image", 1)>>}}
  \cup
  {[nodes |-> <<t>> \o ImageSources,
    edges |-> [i \in 1..k |-> NewEdge(i + 1, 1, "image", "image", i)]] :
      t \in VideoTargets, k \in 0..MaxImages}
  \cup
  {[nodes |-> <<t>>, edges |-> <<>>] : t \in MergeTargets}
  \cup
  {PassiveGraph}

HandlerInit ==
  /\ \E g \in HandlerGraphs : nodes = g.nodes /\ edges = g.edges
  /\ projects = <<>>
  /\ currentProjectId = NoProject
  /\ runs = <<>>
  /\ timers = {}
  /\ nextId = 0
  /\ now = 0
  /\ userOps = 0
  /\ materialized = {}
  /\ last = [act |-> "init", nodes |-> <<>>, edges |-> <<>>, runs |-> <<>>]

HandlerNext ==
  \/ runs = <<>> /\ Execute(1)
  \/ \E ok \in BOOLEAN, dims \in ImageDims : DecodeDone(1, ok, dims)
  \/ \E ok \in BOOLEAN : CellDone(1, ok)
  \/ \E ok \in BOOLEAN : SubmitDone(1, ok)
  \/ \E ans \in PollAnswers \cup OverReports : PollDone(1, ans)
  \/ \E id \in NodeIds(nodes) \cup {FreshId(nextId)} : ExecuteIgnored(id)

HandlerSpec == HandlerInit /\ [][HandlerNext]_vars

(***************************************************************************)
(* The editor: the user selects nodes, adds nodes from the palette (which  *)
(* connects the selected nodes to the new one) and draws connections.      *)
(***************************************************************************)
MaxEdits == 3        \* nodes added and connections drawn in one behaviour

EditOp(act) == userOps < MaxEdits /\ userOps' = userOps + 1 /\ Log(act)

\* the canvas the user starts from: a text and two images, the lower image first
Palette ==
  <<[NewNode(1, "inputText") EXCEPT !.content = <<"t1">>, !.pos = <<0, 0>>],
    [NewNode(2, "inputImage") EXCEPT !.url = "u2", !.pos = <<0, 240>>],
    [NewNode(3, "inputImage") EXCEPT !.url = "u3", !.pos = <<0, 120>>]>>

AddableTypes == {"promptMerge", "aiImageGen"}
ViewCentre == <<200, 200>>     \* the centre of the viewport, in flow coordinates

\* the target handles a node type offers
TargetHandles(type) ==
  CASE type = "promptMerge" -> {"anchor", "sequence"}
    [] type = "aiImageGen" -> {"text", "image"}
    [] OTHER -> {}

SourceHandle(node) ==
  IF node.type \in {"inputText", "promptMerge"} \/ IsExpert(node.type) THEN "text" ELSE "image"

\* [...].sort((a, b) => a.position.y - b.position.y) (stable)
RECURSIVE SortByY(_)
SortByY(ns) ==
  IF ns = <<>> THEN <<>>
  ELSE LET rest == SortByY(SubSeq(ns, 1, Len(ns) - 1))
           n == ns[Len(ns)]
           p == Cardinality({i \in 1..Len(rest) : rest[i].pos[2] <= n.pos[2]})
       IN  SubSeq(rest, 1, p) \o <<n>> \o SubSeq(rest, p + 1, Len(rest))

RECURSIVE SumY(_)
SumY(ns) == IF ns = <<>> THEN 0 ELSE Head(ns).pos[2] + SumY(Tail(ns))

RECURSIVE MaxX(_)
MaxX(ns) ==
  IF Len(ns) = 1 THEN ns[1].pos[1]
  ELSE LET m == MaxX(Tail(ns)) IN IF Head(ns).pos[1] >= m THEN Head(ns).pos[1] ELSE m

\* storeOnConnect for each connection of a list, in order
RECURSIVE ConnectAll(_, _)
ConnectAll(es, conns) ==
  IF conns = <<>> THEN es ELSE ConnectAll(onConnect(es, Head(conns)), Tail(conns))

\* onNodesChange with a selection change: a click on a node toggles its selection
selectNode(id) ==
  /\ userOps < MaxEdits
  /\ HasNode(nodes, id)
  /\ nodes' = updateNodeData(nodes, id, [selected |-> ~FindNode(nodes, id).selected])
  /\ Log("select")
  /\ UNCHANGED <<edges, projects, currentProjectId, runs, timers, nextId, now, userOps,
                 materialized>>

IsTextSource(n) ==
  \/ n.type = "inputText"
  \/ n.type \in ExpertTypes \ {"aiExpert"}            \* n.type?.startsWith('expert')
  \/ n.type = "outputResult" /\ n.dtype = "text"
  \/ n.type = "promptMerge"

IsImageSource(n) ==
  \/ n.type = "inputImage"
  \/ n.type = "outputResult" /\ n.dtype = "image"
  \/ n.type \in {"aiImageGen", "imageProcessing", "imageSplit"}

\* addNewNode(type) from the palette, without initialPos; avgY is kept to whole
\* pixels (the palette's positions make the averages of the first nodes exact)
addNewNode(type) ==
  LET selectedNodes == SelectSeq(nodes, LAMBDA n : n.selected)
      newNodeId == FreshId(nextId)
      position == IF selectedNodes /= <<>>
                    THEN <<MaxX(selectedNodes) + 400, SumY(selectedNodes) \div Len(selectedNodes)>>
                    ELSE ViewCentre
      newNode == [NewNode(newNodeId, type) EXCEPT !.pos = position]
      textNodes == SelectSeq(selectedNodes, IsTextSource)
      imageNodes == SortByY(SelectSeq(selectedNodes, IsImageSource))
      targetHandle == IF type = "promptMerge" THEN "sequence" ELSE "text"
      textEdges == [i \in 1..Len(textNodes) |->
                      NewEdge(textNodes[i].id, newNodeId, "text", targetHandle, NoNum)]
      imageEdges == [i \in 1..Len(imageNodes) |->
                       NewEdge(imageNodes[i].id, newNodeId, "image", "image", i)]
  IN  /\ EditOp("add")
      /\ nodes' = addNode(nodes, newNode)
      /\ edges' = ConnectAll(edges, textEdges \o imageEdges)
      /\ nextId' = nextId + 1
      /\ UNCHANGED <<projects, currentProjectId, runs, timers, now, materialized>>

\* App.onConnect(params): the user has drawn a connection from a source handle to a
\* target handle
AppConnect(source, target, sourceHandle, targetHandle) ==
  LET selectedNodes == SelectSeq(nodes, LAMBDA n : n.selected)
      isSourceSelected == \E i \in 1..Len(selectedNodes) : selectedNodes[i].id = source
      needsOrder == targetHandle \in {"image", "sequence"}
      baseOrder == Len(SelectSeq(edges, LAMBDA e : e.target = target
                                                   /\ e.targetHandle = targetHandle))
      others == SelectSeq(SortByY(selectedNodes), LAMBDA n : n.id /= target)
      multi == [i \in 1..Len(others) |->
                  NewEdge(others[i].id, target, sourceHandle, targetHandle,
                          IF needsOrder THEN baseOrder + i ELSE NoNum)]
      single == <<NewEdge(source, target, sourceHandle, targetHandle,
                          IF needsOrder THEN baseOrder + 1 ELSE NoNum)>>
  IN  /\ EditOp("connect")
      /\ edges' = ConnectAll(edges, IF isSourceSelected /\ Len(selectedNodes) > 1
                                      THEN multi ELSE single)
      /\ UNCHANGED <<nodes, projects, currentProjectId, runs, timers, nextId, now,
                     materialized>>

EditInit ==
  /\ nodes = Palette
  /\ edges = <<>>
  /\ projects = <<>>
  /\ currentProjectId = NoProject
  /\ runs = <<>>
  /\ timers = {}
  /\ nextId = 0
  /\ now = 0
  /\ userOps = 0
  /\ materialized = {}
  /\ last = [act |-> "init", nodes |-> <<>>, edges |-> <<>>, runs |-> <<>>]

EditNext ==
  \/ \E id \in NodeIds(Palette) : selectNode(id)
  \/ \E type \in AddableTypes : addNewNode(type)
  \/ \E i, j \in 1..Len(nodes) :
        /\ i /= j
        /\ \E h \in TargetHandles(nodes[j].type) :
              AppConnect(nodes[i].id, nodes[j].id, SourceHandle(nodes[i]), h)

EditSpec == EditInit /\ [][EditNext]_vars

(***************************************************************************)
(* One image handle: a generator (node 1) whose image handle already has   *)
(* some connections, drawn one by one; the user deletes edges and draws    *)
(* further connections.                                                    *)
(***************************************************************************)
\* deleteEdges(edgesToDelete): the edges with these ids go, the others stay in place
deleteEdges(ids) ==
  /\ EditOp("deleteEdges")
  /\ edges' = SelectSeq(edges, LAMBDA e : e.id \notin ids)
  /\ UNCHANGED <<nodes, projects, currentProjectId, runs, timers, nextId, now, materialized>>

\* the edge arrays that k single connections to the image handle of node 1 leave
LinkedEdges ==
  {[i \in 1..k |-> NewEdge(f[i], 1, "image", "image", i)] :
     k \in 0..(MaxImages - 1),
     f \in {g \in [1..(MaxImages - 1) -> 2..(MaxImages + 1)] :
              \A a, b \in 1..(MaxImages - 1) : a /= b => g[a] /= g[b]}}

LinkInit ==
  /\ nodes = <<NewNode(1, "aiImageGen")>> \o ImageSources
  /\ edges \in LinkedEdges
  /\ projects = <<>>
  /\ currentProjectId = NoProject
  /\ runs = <<>>
  /\ timers = {}
  /\ nextId = 0
  /\ now = 0
  /\ userOps = 0
  /\ materialized = {}
  /\ last = [act |-> "init", nodes |-> <<>>, edges |-> <<>>, runs |-> <<>>]

LinkNext ==
  \/ \E src \in 2..(MaxImages + 1) : AppConnect(src, 1, "image", "image")
  \/ \E ids \in SUBSET {edges[j].id : j \in 1..Len(edges)} : ids /= {} /\ deleteEdges(ids)

LinkSpec == LinkInit /\ [][LinkNext]_vars

(***************************************************************************)
(* The project list: saving, importing, loading and deleting projects, and *)
(* duplicating nodes, while nodes of the graph may be running.             *)
(***************************************************************************)
MaxProjectOps == 3

ProjectOp(act) == userOps < MaxProjectOps /\ userOps' = userOps + 1 /\ Log(act)

\* crypto.randomUUID() for a project
FreshProjectId(k) == "project " \o ToString(k)

ProjectIds(ps) == {ps[i].id : i \in 1..Len(ps)}

\* nodes.map(node => ({ ...node, data: { ...node.data, status: ..., progress: 0,
\* statusMsg: undefined } }))
cleanedNodes(ns) ==
  [i \in 1..Len(ns) |->
     [ns[i] EXCEPT !.status = IF ns[i].status = "loading" THEN "idle" ELSE ns[i].status,
                   !.progress = 0,
                   !.statusMsg = NoVal]]

\* variant: the nodes are stored as they are
saveProjectAsIs ==
  LET id == IF currentProjectId /= NoProject THEN currentProjectId
            ELSE FreshProjectId(nextId)
      newProj == [id |-> id, nodes |-> nodes, edges |-> edges]
  IN  /\ ProjectOp("save")
      /\ projects' = Append(SelectSeq(projects, LAMBDA q : q.id /= id), newProj)
      /\ currentProjectId' = id
      /\ nextId' = IF currentProjectId /= NoProject THEN nextId ELSE nextId + 1
      /\ UNCHANGED <<nodes, edges, runs, timers, now, materialized>>

\* saveProject(name)
saveProject ==
  LET id == IF currentProjectId /= NoProject THEN currentProjectId
            ELSE FreshProjectId(nextId)
      newProj == [id |-> id, nodes |-> cleanedNodes(nodes), edges |-> edges]
  IN  /\ ProjectOp("save")
      /\ projects' = Append(SelectSeq(projects, LAMBDA q : q.id /= id), newProj)
      /\ currentProjectId' = id
      /\ nextId' = IF currentProjectId /= NoProject THEN nextId ELSE nextId + 1
      /\ UNCHANGED <<nodes, edges, runs, timers, now, materialized>>

\* importProject(projectData)
importProject(projectData) ==
  /\ ProjectOp("import")
  /\ projects' = Append(SelectSeq(projects, LAMBDA q : q.id /= projectData.id), projectData)
  /\ currentProjectId' = projectData.id
  /\ nodes' = projectData.nodes
  /\ edges' = projectData.edges
  /\ UNCHANGED <<runs, timers, nextId, now, materialized>>

\* variant: the project goes, the current project id stays
deleteProjectOnly(id) ==
  /\ ProjectOp("deleteProject")
  /\ projects' = SelectSeq(projects, LAMBDA q : q.id /= id)
  /\ UNCHANGED <<currentProjectId, nodes, edges, runs, timers, nextId, now, materialized>>

\* deleteProject(id)
deleteProject(id) ==
  /\ ProjectOp("deleteProject")
  /\ projects' = SelectSeq(projects, LAMBDA q : q.id /= id)
  /\ currentProjectId' = IF currentProjectId = id THEN NoProject ELSE currentProjectId
  /\ UNCHANGED <<nodes, edges, runs, timers, nextId, now, materialized>>

\* variant: the copy keeps the status, progress and status message of the original
duplicateNodeAsIs(nodeId) ==
  /\ ProjectOp(IF HasNode(nodes, nodeId) THEN "duplicate" ELSE "duplicate missing")
  /\ IF ~HasNode(nodes, nodeId) THEN UNCHANGED <<nodes, nextId>>
     ELSE LET nodeToCopy == FindNode(nodes, nodeId)
              newNode == [nodeToCopy EXCEPT
                            !.id = FreshId(nextId),
                            !.pos = <<nodeToCopy.pos[1] + 40, nodeToCopy.pos[2] + 40>>,
                            !.selected = FALSE]
          IN  /\ nodes' = Append(nodes, newNode)
              /\ nextId' = nextId + 1
  /\ UNCHANGED <<edges, projects, currentProjectId, runs, timers, now, materialized>>

\* duplicateNode(nodeId)
duplicateNode(nodeId) ==
  /\ ProjectOp(IF HasNode(nodes, nodeId) THEN "duplicate" ELSE "duplicate missing")
  /\ IF ~HasNode(nodes, nodeId) THEN UNCHANGED <<nodes, nextId>>
     ELSE LET nodeToCopy == FindNode(nodes, nodeId)
              newNode == [nodeToCopy EXCEPT
                            !.id = FreshId(nextId),
                            !.pos = <<nodeToCopy.pos[1] + 40, nodeToCopy.pos[2] + 40>>,
                            !.selected = FALSE,
                            !.status = "idle",
                            !.progress = 0,
                            !.statusMsg = NoVal]
          IN  /\ nodes' = Append(nodes, newNode)
              /\ nextId' = nextId + 1
  /\ UNCHANGED <<edges, projects, currentProjectId, runs, timers, now, materialized>>

\* the project lists found in localStorage
ProjectLists ==
  {<<>>, <<ProjectSplit, ProjectText>>, <<ProjectNative, ProjectDraw>>}
  \cup {<<q>> : q \in StoredProjects}

\* files written by exportProjectToFile: a stored project as it is, and one under an
\* id that may not be in the list
ImportFiles == {ProjectDraw, [ProjectVideo EXCEPT !.id = "pShared"]}

ProjectInit ==
  /\ nodes = <<>>
  /\ edges = <<>>
  /\ projects \in ProjectLists
  /\ currentProjectId = NoProject
  /\ runs = <<>>
  /\ timers = {}
  /\ nextId = 0
  /\ now = 0
  /\ userOps = 0
  /\ materialized = {}
  /\ last = [act |-> "init", nodes |-> <<>>, edges |-> <<>>, runs |-> <<>>]

ProjectNext ==
  \/ \E id \in ProjectIds(projects) : loadProject(id)
  \/ newProject
  \/ saveProject
  \/ \E file \in ImportFiles : importProject(file)
  \/ \E id \in ProjectIds(projects) : deleteProject(id)
  \/ \E id \in NodeIds(nodes) \cup {FreshId(nextId)} : duplicateNode(id)
  \/ \E id \in NodeIds(nodes) : runs = <<>> /\ Execute(id)

ProjectSpec == ProjectInit /\ [][ProjectNext]_vars

(***************************************************************************)
(* What the last step did, read off the history variable.                  *)
(***************************************************************************)
RunIds == 1..Len(runs)

\* run r took a step (its start included) in the last transition
Stepped(r) == r \in RunIds /\ (r > Len(last.runs) \/ runs[r] /= last.runs[r])

JustStarted(r) == r \in RunIds /\ r > Len(last.runs)
JustEnded(r) == Stepped(r) /\ runs[r].out /= "running"
JustFailed(r) == Stepped(r) /\ runs[r].failed
JustSucceeded(r) == Stepped(r) /\ runs[r].out = "success"

SteppedNodes == {runs[r].node : r \in {q \in RunIds : Stepped(q)}}

\* the nodes and edges of before the step are still there, in place
NodesKept ==
  /\ Len(nodes) >= Len(last.nodes)
  /\ \A i \in 1..Len(last.nodes) : nodes[i].id = last.nodes[i].id
EdgesKept ==
  /\ Len(edges) >= Len(last.edges)
  /\ \A j \in 1..Len(last.edges) : edges[j] = last.edges[j]

NewNodeIds == {nodes[i].id : i \in Len(last.nodes) + 1 .. Len(nodes)}
NewEdgesFrom(src) == {j \in Len(last.edges) + 1 .. Len(edges) : edges[j].source = src}

HasEdge(src, tgt) == \E j \in 1..Len(edges) : edges[j].source = src /\ edges[j].target = tgt

\* C1: whenever an execution has just failed, at whatever step, its node (if still in
\* the graph) has the status error; none is left loading.
C1_FailureSetsError ==
  \A r \in RunIds :
     (JustFailed(r) /\ HasNode(nodes, runs[r].node))
        => FindNode(nodes, runs[r].node).status = "error"

\* C2: when an execution A has just failed, every node that no stepping execution
\* runs on is exactly as before, no node and no edge has been removed, and every
\* other execution is where it was, so that it goes on to materialize its results.
C2_FailureIsIsolated ==
  \A a \in RunIds :
     JustFailed(a) =>
        /\ NodesKept
        /\ EdgesKept
        /\ \A i \in 1..Len(last.nodes) :
              nodes[i].id \notin SteppedNodes => nodes[i] = last.nodes[i]
        /\ \A b \in 1..Len(last.runs) : b /= a => runs[b] = last.runs[b]

\* a run has just failed while a run of another node is in flight, its node loading
C2_Witness ==
  \E a, b \in RunIds :
     /\ JustFailed(a)
     /\ runs[b].out = "running" /\ runs[b].node /= runs[a].node
     /\ HasNode(nodes, runs[a].node) /\ HasNode(nodes, runs[b].node)
     /\ FindNode(nodes, runs[b].node).status = "loading"

StatusEdges ==
  {<<"idle", "loading">>, <<"loading", "success">>, <<"loading", "error">>,
   <<"success", "loading">>, <<"error", "loading">>}

\* C3: in every step that keeps the graph (anything but loading or resetting the
\* project), a node whose status changes moves along one of the allowed transitions;
\* a node on which an execution has just started has passed through loading.
C3_StatusTransitions ==
  last.act \notin {"init", "load", "new"} =>
     \A i \in 1..Len(last.nodes), j \in 1..Len(nodes) :
        (/\ nodes[j].id = last.nodes[i].id
         /\ nodes[j].status /= last.nodes[i].status
         /\ \A r \in RunIds : JustStarted(r) => runs[r].node /= nodes[j].id)
           => <<last.nodes[i].status, nodes[j].status>> \in StatusEdges

\* C4: an execution that has just started has given its node a new start time and,
\* if it is waiting for an external call, the status loading, progress 0 and no
\* duration; an execution that has just ended has given its node the status
\* success or error and the elapsed duration.
C4_StartAndEnd ==
  \A r \in RunIds :
     HasNode(nodes, runs[r].node) =>
        LET n == FindNode(nodes, runs[r].node)
        IN  /\ JustStarted(r) =>
                 /\ n.startTime = runs[r].start
                 /\ \A i \in 1..Len(last.nodes) : last.nodes[i].startTime < n.startTime
                 /\ runs[r].out = "running" =>
                       n.status = "loading" /\ n.progress = 0 /\ n.duration = NoNum
            /\ JustEnded(r) =>
                 /\ n.status \in {"success", "error"}
                 /\ n.duration = now - runs[r].start

\* the documented number of results of a successful run
Expected(run) ==
  CASE run.path = "expert" -> Min2(run.pairs, 16)
    [] run.path = "split" -> Len(run.sel)
    [] OTHER -> 1

RECURSIVE SumExpected(_)
SumExpected(rs) ==
  IF rs = {} THEN 0
  ELSE LET r == CHOOSE x \in rs : TRUE
       IN  Expected(runs[r]) + SumExpected(rs \ {r})

\* C5: when a run has just ended in success, the step has appended exactly the
\* documented number of edges leaving its node, each to a distinct node appended in
\* the same step, and the step has appended no other node or edge.
C5_SuccessAppendsExpected ==
  LET done == {r \in RunIds : JustSucceeded(r)}
  IN  done /= {} =>
        /\ NodesKept /\ EdgesKept
        /\ Len(nodes) - Len(last.nodes) = SumExpected(done)
        /\ Len(edges) - Len(last.edges) = SumExpected(done)
        /\ Cardinality(NewNodeIds) = SumExpected(done)
        /\ \A r \in done :
              LET mine == NewEdgesFrom(runs[r].node)
              IN  /\ Cardinality(mine) = Expected(runs[r])
                  /\ Cardinality({edges[j].target : j \in mine}) = Expected(runs[r])
                  /\ \A j \in mine : /\ edges[j].target \in NewNodeIds
                                      /\ ~HasNode(last.nodes, edges[j].target)

\* an expert answer of more than sixteen pairs, and a splitter run of two cells,
\* have just succeeded
C5_Witness ==
  \E r \in RunIds :
     /\ JustSucceeded(r)
     /\ \/ runs[r].path = "expert" /\ runs[r].pairs > 16
        \/ runs[r].path = "split" /\ Len(runs[r].sel) = 2

\* C6: when a run has just failed, the step has appended no node and no edge for
\* it, and its node (if still in the graph) has the status error.
C6_FailureAppendsNothing ==
  \A r \in RunIds :
     JustFailed(r) =>
        /\ NewEdgesFrom(runs[r].node) = {}
        /\ (\A q \in RunIds : Stepped(q) => q = r) =>
              Len(nodes) = Len(last.nodes) /\ Len(edges) = Len(last.edges)
        /\ HasNode(nodes, runs[r].node) => FindNode(nodes, runs[r].node).status = "error"

\* C7, as stated: when a splitter run has just failed after processing at least one
\* cell, the result nodes of the processed cells are in the graph.
C7_ProcessedCellsRemain ==
  \A r \in RunIds :
     (JustFailed(r) /\ runs[r].path = "split" /\ Len(runs[r].acc) >= 1)
        => \A k \in 1..Len(runs[r].acc) : HasNode(nodes, runs[r].acc[k].id)

\* C7, amended: the result node of no cell processed by a failed splitter run is ever
\* in the graph, nor recorded as materialized: the processed cells are discarded.
C7_ProcessedCellsDiscarded ==
  \A r \in RunIds :
     (runs[r].path = "split" /\ runs[r].failed) =>
        \A k \in 1..Len(runs[r].acc) :
           /\ ~HasNode(nodes, runs[r].acc[k].id)
           /\ <<runs[r].node, runs[r].acc[k].id>> \notin materialized

\* a splitter run has just failed at its second cell
C7_Witness ==
  \E r \in RunIds :
     JustFailed(r) /\ runs[r].path = "split" /\ Len(runs[r].acc) = 1 /\ runs[r].i = 1

\* C8: every edge's source and target are ids of nodes of the graph.
C8_NoDanglingEdge ==
  \A j \in 1..Len(edges) :
     HasNode(nodes, edges[j].source) /\ HasNode(nodes, edges[j].target)

\* a result node that the last step has put in the graph, with the node it comes from
JustMaterialized ==
  {p \in materialized : HasNode(nodes, p[2]) /\ ~HasNode(last.nodes, p[2])}

\* C9, as stated: a result node that a step has put in the graph has, after that
\* very step, its edge from the node that produced it.
C9_ResultWithEdge ==
  \A p \in JustMaterialized : HasEdge(p[1], p[2])

\* C9, amended: a result node that a step of executeNode has put in the graph has,
\* after that very step, exactly one edge, which comes from the executed node; the
\* result node of the image editor gets its edge by a later timer.
C9_EngineResultWithEdge ==
  last.act = "run" =>
     \A p \in JustMaterialized :
        /\ p[1] \in SteppedNodes
        /\ Cardinality({j \in 1..Len(edges) : edges[j].target = p[2]}) = 1
        /\ HasEdge(p[1], p[2])

\* a run that was waiting for an external call has just materialized its result
C9_Witness ==
  /\ last.act = "run"
  /\ \E p \in JustMaterialized, r \in 1..Len(last.runs) :
        JustSucceeded(r) /\ runs[r].node = p[1]

\* the fields of a node that no execution writes
ConfigOf(n) ==
  [id |-> n.id, type |-> n.type, selected |-> n.selected, label |-> n.label,
   dtype |-> n.dtype, remark |-> n.remark, readImageRemarks |-> n.readImageRemarks,
   model |-> n.model, comflyAsync |-> n.comflyAsync,
   gridType |-> n.gridType, gridSelect |-> n.gridSelect, gridTrim |-> n.gridTrim,
   characterAnchor |-> n.characterAnchor, sequenceContent |-> n.sequenceContent]

\* C10: a step of an execution keeps every node and edge that was there, changes
\* the data of no node but its own and nothing of its own node's configuration;
\* and as long as the user has removed nothing, every result node ever materialized
\* by an execution is in the graph with its edge.
C10_NoLostUpdate ==
  /\ last.act = "run" =>
        /\ NodesKept /\ EdgesKept
        /\ \A i \in 1..Len(last.nodes) :
              /\ nodes[i].id \notin SteppedNodes => nodes[i] = last.nodes[i]
              /\ ConfigOf(nodes[i]) = ConfigOf(last.nodes[i])
  /\ userOps <= 1 =>
        \A p \in materialized : HasNode(nodes, p[2]) /\ HasEdge(p[1], p[2])

\* two executions of different nodes have overlapped and both have succeeded, with
\* nothing removed by the user
C10_Witness ==
  /\ userOps <= 1
  /\ \E a, b \in RunIds :
        /\ a < b /\ runs[a].node /= runs[b].node
        /\ runs[a].out = "success" /\ runs[b].out = "success"
        /\ runs[a].pc = "done" /\ FindNode(nodes, runs[a].node).duration >= 1
        /\ \E p, q \in materialized : p[1] = runs[a].node /\ q[1] = runs[b].node

(***************************************************************************)
(* The poll cycle of an asynchronous operation.                            *)
(***************************************************************************)
\* the poll of this run has observed DONE: a success status, or (comfly) a result
\* reference in the task record
ObservedDone(run) ==
  \/ run.answer.st = "done"
  \/ /\ run.answer.st = "pending"
     /\ run.path \in {"comflyAsync", "comflyVideo"}
     /\ Truthy(run.answer.url)

\* C11: when a poll has just returned an explicit failure status, the operation is
\* over (no further poll), the step has appended no node and no edge, and the node
\* has the status error with the provider's failure reason, when the provider gives
\* one, as its status message.
C11_ProviderFailure ==
  \A r \in RunIds :
     (Stepped(r) /\ runs[r].answer.st = "failed") =>
        /\ runs[r].pc = "done" /\ runs[r].out = "error"
        /\ Len(nodes) = Len(last.nodes) /\ Len(edges) = Len(last.edges)
        /\ HasNode(nodes, runs[r].node) =>
              LET n == FindNode(nodes, runs[r].node)
              IN  /\ n.status = "error"
                  /\ Truthy(runs[r].answer.reason) => n.statusMsg = runs[r].answer.reason

C13_TerminalAnswerEndsRun ==
  \A r \in 1..MaxRuns :
     (r \in RunIds /\ runs[r].answer.st \in {"done", "failed"})
        ~> (r \in RunIds /\ FindNode(nodes, runs[r].node).status \in {"success", "error"})

\* C14: when a poll has just returned a non-terminal status without a result
\* reference, the next poll is scheduled, nothing is appended and the node keeps its
\* status; and a node whose only invocation is polling, with nothing removed or
\* reloaded by the user, is loading.
C14_PendingKeepsPolling ==
  \A r \in RunIds :
     /\ (Stepped(r) /\ runs[r].answer.st = "pending" /\ ~ObservedDone(runs[r])) =>
           /\ runs[r].pc = "poll" /\ runs[r].out = "running"
           /\ runs[r].polls = last.runs[r].polls + 1
           /\ Len(nodes) = Len(last.nodes) /\ edges = last.edges
           /\ \A i \in 1..Len(nodes) : nodes[i].status = last.nodes[i].status
     /\ (/\ runs[r].pc = "poll" /\ runs[r].out = "running"
         /\ userOps <= 1
         /\ \A q \in RunIds : q /= r => runs[q].node /= runs[r].node)
           => FindNode(nodes, runs[r].node).status = "loading"

\* a poll has just returned a non-terminal status and the node is still loading,
\* with the progress of the answer
C14_Witness ==
  \E r \in RunIds :
     /\ Stepped(r) /\ runs[r].answer.st = "pending" /\ runs[r].polls >= 1
     /\ runs[r].pc = "poll"
     /\ HasNode(nodes, runs[r].node)
     /\ FindNode(nodes, runs[r].node).status = "loading"
     /\ FindNode(nodes, runs[r].node).progress = 50

(***************************************************************************)
(* The inputs resolved by an invocation that has just started, against the *)
(* graph it has read (the one before the step).                            *)
(***************************************************************************)
InEdges(t) == {j \in 1..Len(last.edges) : last.edges[j].target = t}

SourceOf(j) == FindNode(last.nodes, last.edges[j].source)

\* the rank of an edge: its order, an absent order counting as 0
RankOf(j) == IF last.edges[j].order = NoNum THEN 0 ELSE last.edges[j].order

\* edge k comes before edge j: by order, then by position in the edge array
ComesBefore(k, j) == RankOf(k) < RankOf(j) \/ (RankOf(k) = RankOf(j) /\ k < j)

PlaceByOrder(J, j) == Cardinality({k \in J : k = j \/ ComesBefore(k, j)})
PlaceByPosition(J, j) == Cardinality({k \in J : k <= j})

\* the image edges of node t whose source has an artifact URL
ImageEdges(t) ==
  {j \in InEdges(t) : /\ last.edges[j].targetHandle = "image"
                      /\ HasNode(last.nodes, last.edges[j].source)
                      /\ Truthy(SourceOf(j).url)}

\* C15: the resolved image list holds exactly the URLs of the sources of the image
\* edges that have one, the URL of each edge at its place by order, edges of equal
\* order by position in the edge array, an absent order counting as 0.
C15_ImagesStableByOrder ==
  \A r \in RunIds :
     JustStarted(r) =>
        LET J == ImageEdges(runs[r].node)
        IN  /\ Len(runs[r].images) = Cardinality(J)
            /\ \A j \in J : runs[r].images[PlaceByOrder(J, j)] = SourceOf(j).url

\* three image edges have been resolved: the source of one has no URL, and the later
\* of the other two ranks before the earlier
C15_Witness ==
  \E r \in RunIds :
     /\ JustStarted(r)
     /\ Len(runs[r].images) = 2
     /\ Cardinality({j \in InEdges(runs[r].node) : last.edges[j].targetHandle = "image"}) = 3
     /\ \E j, k \in ImageEdges(runs[r].node) : j < k /\ RankOf(k) < RankOf(j)

\* the text edges of node t whose source has a non-empty content
TextEdges(t) ==
  {j \in InEdges(t) : /\ last.edges[j].targetHandle \in {NoVal, "text", "anchor", "sequence"}
                      /\ HasNode(last.nodes, last.edges[j].source)
                      /\ SourceOf(j).content /= <<>>}

\* C16: the resolved text list holds exactly the non-empty contents of the sources
\* of the edges to no handle, "text", "anchor" or "sequence", each at its place by
\* position in the edge array, whatever the orders of the edges.
C16_TextsInEdgeOrder ==
  \A r \in RunIds :
     JustStarted(r) =>
        LET J == TextEdges(runs[r].node)
        IN  /\ Len(runs[r].texts) = Cardinality(J)
            /\ \A j \in J : runs[r].texts[PlaceByPosition(J, j)] = SourceOf(j).content

\* two texts have been resolved over an edge without a handle and a named one, the
\* first of a higher order than the second
C16_Witness ==
  \E r \in RunIds :
     /\ JustStarted(r)
     /\ Len(runs[r].texts) = 2
     /\ \E j, k \in TextEdges(runs[r].node) :
           /\ j < k /\ RankOf(k) < RankOf(j)
           /\ last.edges[j].targetHandle = NoVal /\ last.edges[k].targetHandle = "anchor"

\* the source node of the image at position i of a resolved image list
ImageSource(images, i) ==
  CHOOSE n \in {last.nodes[k] : k \in 1..Len(last.nodes)} : n.url = images[i]

\* C17: every remark of the remarks section is reported for the position of the
\* image whose source node carries it.
C17_RemarksAligned ==
  \A r \in RunIds :
     JustStarted(r) =>
        \A k \in 1..Len(runs[r].remarks) :
           /\ runs[r].remarks[k].image \in 1..Len(runs[r].images)
           /\ ImageSource(runs[r].images, runs[r].remarks[k].image).remark
                 = runs[r].remarks[k].remark

\* the nodes a and b are the same but for the fields that executeNode writes on the
\* node it runs
SameButRunState(a, b) ==
  [a EXCEPT !.status = b.status, !.progress = b.progress, !.statusMsg = b.statusMsg,
            !.startTime = b.startTime, !.duration = b.duration] = b

\* C18: when an invocation has just resolved its inputs and started, the nodes and
\* the edge array of before are still there, in the same order; no other node has
\* changed, and the executed node only in its run state.
C18_ResolveChangesNothing ==
  \A r \in RunIds :
     JustStarted(r) =>
        /\ NodesKept
        /\ EdgesKept
        /\ \A i \in 1..Len(last.nodes) :
              /\ nodes[i].id \notin SteppedNodes => nodes[i] = last.nodes[i]
              /\ SameButRunState(last.nodes[i], nodes[i])

\* inputs have been resolved over three image edges, which the sort reorders
C18_Witness ==
  \E r \in RunIds :
     /\ JustStarted(r)
     /\ Len(runs[r].images) = 3
     /\ \E j, k \in ImageEdges(runs[r].node) : j < k /\ RankOf(k) < RankOf(j)
     /\ edges = last.edges

(***************************************************************************)
(* The prompt merger: the shots and the anchor of an invocation that has   *)
(* just run, against the graph it has read.                                *)
(***************************************************************************)
\* C19: when a prompt merger has just succeeded on the shot list s, its resolved
\* sequence has the length T of its grid (9 for 3x3, the default; 4 for 2x2), and
\* its i-th element is the i-th shot of s, or the last shot of s beyond the end of s.
C19_PaddedOrTruncated ==
  \A r \in RunIds :
     (JustStarted(r) /\ runs[r].path = "merge" /\ runs[r].out = "success") =>
        LET shots == runs[r].shots
            T == IF runs[r].snap.gridType = "2x2" THEN 4 ELSE 9
        IN  /\ shots /= <<>>
            /\ Len(runs[r].active) = T
            /\ \A i \in 1..T :
                  runs[r].active[i] = shots[IF i <= Len(shots) THEN i ELSE Len(shots)]

\* the shots A, B on a 3x3 grid, and the sequence A, B, B, B, B, B, B, B, B
C19_Witness ==
  \E r \in RunIds :
     /\ JustStarted(r) /\ runs[r].out = "success"
     /\ runs[r].shots = << <<"A">>, <<"B">> >>
     /\ runs[r].active = << <<"A">> >> \o [i \in 1..8 |-> <<"B">>]

\* the text a connected node gives: its content, else its label, else nothing
TextOf(j) ==
  IF ~HasNode(last.nodes, last.edges[j].source) THEN <<>>
  ELSE IF SourceOf(j).content /= <<>> THEN SourceOf(j).content
  ELSE IF SourceOf(j).label \notin {NoVal, ""} THEN <<SourceOf(j).label>>
  ELSE <<>>

HandleEdges(t, h) == {j \in InEdges(t) : last.edges[j].targetHandle = h}

\* C20: when a prompt merger has just run, its shots are the texts of the nodes
\* connected to "sequence", by edge order, if there is such an edge, and else the
\* non-empty lines of its own field (it fails when there are none); its anchor is the
\* text of the first node connected to "anchor" if that node has one, else its own
\* anchor field, else the default.
C20_ShotAndAnchorSources ==
  \A r \in RunIds :
     (JustStarted(r) /\ runs[r].path = "merge") =>
        LET t == runs[r].node
            linked == {j \in HandleEdges(t, "sequence") : TextOf(j) /= <<>>}
            lines == SelectSeq(runs[r].snap.sequenceContent, LAMBDA l : l \notin {"", " "})
            anchors == HandleEdges(t, "anchor")
            first == CHOOSE j \in anchors : \A k \in anchors : j <= k
            own == IF runs[r].snap.characterAnchor /= <<>>
                     THEN runs[r].snap.characterAnchor ELSE DefaultAnchor
        IN  /\ IF HandleEdges(t, "sequence") /= {}
                 THEN /\ Len(runs[r].shots) = Cardinality(linked)
                      /\ \A j \in linked : runs[r].shots[PlaceByOrder(linked, j)] = TextOf(j)
                 ELSE runs[r].shots = [i \in 1..Len(lines) |-> <<lines[i]>>]
            /\ runs[r].out = (IF runs[r].shots = <<>> THEN "error" ELSE "success")
            /\ runs[r].out = "success" =>
                  runs[r].anchor = (IF anchors /= {} /\ TextOf(first) /= <<>>
                                      THEN TextOf(first) ELSE own)

\* C20 as first stated: with an edge to "sequence" every connected node gives a
\* shot, and with an edge to "anchor" the anchor is the connected node's text.
C20_ConnectedSourcesOnly ==
  \A r \in RunIds :
     (JustStarted(r) /\ runs[r].path = "merge" /\ runs[r].out = "success") =>
        LET t == runs[r].node
            anchors == HandleEdges(t, "anchor")
            first == CHOOSE j \in anchors : \A k \in anchors : j <= k
        IN  /\ HandleEdges(t, "sequence") /= {} =>
                  Len(runs[r].shots) = Cardinality(HandleEdges(t, "sequence"))
            /\ anchors /= {} => runs[r].anchor = TextOf(first)

\* a merger with lines and an anchor of its own, one node connected to "sequence" and
\* a node without text connected to "anchor": the shot is the connected node's, the
\* anchor is the merger's own
C20_Witness ==
  \E r \in RunIds :
     /\ JustStarted(r) /\ runs[r].path = "merge" /\ runs[r].out = "success"
     /\ runs[r].snap.sequenceContent /= <<>>
     /\ \E j \in HandleEdges(runs[r].node, "sequence") : runs[r].shots = <<TextOf(j)>>
     /\ \E k \in HandleEdges(runs[r].node, "anchor") : TextOf(k) = <<>>
     /\ runs[r].anchor = <<"hero">>

(***************************************************************************)
(* Experts, result positions, image generators.                            *)
(***************************************************************************)
\* the nodes the last step has appended, in order
Appended == [i \in 1..(Len(nodes) - Len(last.nodes)) |-> nodes[Len(last.nodes) + i]]

\* C24: when an expert has just succeeded with an answer of n pairs, its node (if
\* still in the graph) has the display summary as content, and the step has appended
\* min(n, 16) text result nodes, the i-th with the prompt of the i-th pair as content
\* and with exactly one edge to it, a "text" edge from the expert.
C24_ExpertSuccess ==
  \A r \in RunIds :
     (JustSucceeded(r) /\ runs[r].path = "expert") =>
        LET n == runs[r].pairs
            k == IF n > 16 THEN 16 ELSE n
        IN  /\ HasNode(nodes, runs[r].node) =>
                 FindNode(nodes, runs[r].node).content = <<"summary">>
            /\ NodesKept
            /\ Len(Appended) = k
            /\ \A i \in 1..k :
                  /\ Appended[i].type = "outputResult" /\ Appended[i].dtype = "text"
                  /\ Appended[i].content = <<"prompt " \o ToString(i)>>
                  /\ \E j \in 1..Len(edges) :
                        /\ edges[j].target = Appended[i].id
                        /\ edges[j].source = runs[r].node
                        /\ edges[j].sourceHandle = "text" /\ edges[j].targetHandle = "text"
                        /\ \A m \in 1..Len(edges) : edges[m].target = Appended[i].id => m = j

\* an answer of 17 pairs: the summary is on the expert node, sixteen results appended
C24_Witness ==
  \E r \in RunIds :
     /\ JustSucceeded(r) /\ runs[r].path = "expert" /\ runs[r].pairs = 17
     /\ HasNode(nodes, runs[r].node)
     /\ FindNode(nodes, runs[r].node).content = <<"summary">>
     /\ Len(Appended) = 16 /\ Appended[16].content = <<"prompt 16">>

RECURSIVE SumSeq(_)
SumSeq(q) == IF q = <<>> THEN 0 ELSE Head(q) + SumSeq(Tail(q))

\* C25: when an expert or a splitter has just succeeded and the step has appended k
\* result nodes, their vertical offsets from the source's vertical position sum to
\* zero, and the i-th offset is the negation of the (k+1-i)-th.
C25_OffsetsSymmetric ==
  \A r \in RunIds :
     (JustSucceeded(r) /\ runs[r].path \in {"expert", "split"}) =>
        LET k == Len(Appended)
            off == [i \in 1..k |-> Appended[i].pos[2] - runs[r].snap.pos[2]]
        IN  /\ SumSeq(off) = 0
            /\ \A i \in 1..k : off[i] = 0 - off[k + 1 - i]

Decoded(r) == r \in RunIds /\ runs[r].path = "split" /\ runs[r].dims /= <<0, 0>>

TotalCells(run) == IF run.snap.gridType = "3x3" THEN 9 ELSE 4

\* the integers of a selection string that lie within 1..total, in the order given
InRange(str, total) ==
  LET parsed == [i \in 1..Len(Split(str)) |-> ParseInt(Split(str)[i])]
      ok == SelectSeq(parsed, LAMBDA q : ~q.isNaN /\ q.n \in 1..total)
  IN  [i \in 1..Len(ok) |-> ok[i].n]

\* the string is empty (or absent), or is "0" with blanks around it
MeansAll(str) ==
  \/ str = <<>>
  \/ /\ \A i \in 1..Len(str) : str[i] \in {"0", " "}
     /\ Cardinality({i \in 1..Len(str) : str[i] = "0"}) = 1

SelectionOf(run) ==
  IF MeansAll(run.snap.gridSelect) THEN [i \in 1..TotalCells(run) |-> i]
  ELSE InRange(run.snap.gridSelect, TotalCells(run))

\* C21: once a splitter has loaded its image, its selected cells are all cells
\* 1..cols*rows when the selection string is "0" (blanks around it ignored) or is
\* empty or absent, and otherwise exactly the parsed integers that lie in
\* [1, cols*rows], in the order given.
C21_SelectedCells ==
  \A r \in RunIds : Decoded(r) => runs[r].sel = SelectionOf(runs[r])

\* C21 as first stated: all cells for the string "0" only, and otherwise the parsed
\* integers in range.
C21_ZeroSelectsAll ==
  \A r \in RunIds :
     Decoded(r) =>
        runs[r].sel = (IF runs[r].snap.gridSelect = <<"0">>
                         THEN [i \in 1..TotalCells(runs[r]) |-> i]
                         ELSE InRange(runs[r].snap.gridSelect, TotalCells(runs[r])))

\* an empty selection string on a 3x3 grid has selected the nine cells
C21_Witness ==
  \E r \in RunIds :
     /\ Decoded(r) /\ runs[r].snap.gridSelect = <<>> /\ runs[r].snap.gridType = "3x3"
     /\ runs[r].sel = <<1, 2, 3, 4, 5, 6, 7, 8, 9>>

\* C22: a splitter that has loaded its image and selected at least one cell has
\* failed with the trim-too-large error if and only if the cell width or the cell
\* height is at most twice the trim (width / cols - 2 trim <= 0, stated without the
\* division), and then nothing has been uploaded and no result node created.
C22_TrimTooLarge ==
  \A r \in RunIds :
     (Decoded(r) /\ runs[r].sel /= <<>>) =>
        LET cols == IF runs[r].snap.gridType = "3x3" THEN 3 ELSE 2
            trim == IF runs[r].snap.gridTrim = NoNum THEN 10 ELSE runs[r].snap.gridTrim
            tooLarge == \/ runs[r].dims[1] <= 2 * trim * cols
                        \/ runs[r].dims[2] <= 2 * trim * cols
            msg == FindNode(nodes, runs[r].node).statusMsg
        IN  /\ (runs[r].out = "error" /\ msg = "trim too large") <=> tooLarge
            /\ tooLarge => /\ "uploadToImgBB" \notin runs[r].calls
                           /\ materialized = {}
                           /\ NodeIds(nodes) = NodeIds(last.nodes)

\* cells of 300 x 300 and a trim of 160
C22_Witness ==
  \E r \in RunIds :
     /\ Decoded(r) /\ runs[r].dims = <<600, 600>> /\ runs[r].snap.gridType = "2x2"
     /\ runs[r].snap.gridTrim = 160 /\ runs[r].sel = <<1, 2, 3, 4>>
     /\ runs[r].out = "error" /\ FindNode(nodes, runs[r].node).status = "error"
     /\ runs[r].calls = {"loadImage"}

\* the local validation failures of an invocation
NoInputImage(r) == runs[r].path = "split" /\ runs[r].images = <<>>
NoShots(r) ==
  /\ runs[r].path = "merge"
  /\ \A j \in 1..Len(last.edges) : last.edges[j].target /= runs[r].node
  /\ \A i \in 1..Len(runs[r].snap.sequenceContent) :
        runs[r].snap.sequenceContent[i] \in {"", " "}
EmptySelection(r) == Decoded(r) /\ SelectionOf(runs[r]) = <<>>

EndedInError(r) ==
  /\ runs[r].out = "error"
  /\ FindNode(nodes, runs[r].node).status = "error"
  /\ materialized = {}
  /\ \A i \in 1..Len(nodes) : nodes[i].type /= "outputResult"

\* C23: a splitter without a resolved input image and a prompt merger without shots
\* end in error before any external call; a splitter whose selection is empty after
\* filtering ends in error once its image is loaded, before any upload; in all
\* three cases without any result node.
C23_LocalValidation ==
  \A r \in RunIds :
     /\ (NoInputImage(r) \/ NoShots(r)) => EndedInError(r) /\ runs[r].calls = {}
     /\ EmptySelection(r) => EndedInError(r) /\ runs[r].calls = {"loadImage"}

\* C23 as first stated: the three failures come before any external call.
C23_BeforeAnyCall ==
  \A r \in RunIds :
     (NoInputImage(r) \/ NoShots(r) \/ EmptySelection(r)) =>
        EndedInError(r) /\ runs[r].calls = {}

\* the selection "x" has been found empty after the image was loaded
C23_Witness ==
  \E r \in RunIds :
     /\ EmptySelection(r) /\ runs[r].snap.gridSelect = <<"x">>
     /\ EndedInError(r) /\ runs[r].calls = {"loadImage"}
     /\ FindNode(nodes, runs[r].node).statusMsg = "no valid selection index"

\* C26: the request of a video generator on the prepareVeoPayload path has, for 0
\* images, no frame and no reference set; for 1 image the first frame only; for 2
\* the first and the last frame; for 3 or more the first 3 as reference set and
\* both frame fields empty.
C26_VeoPayload ==
  \A r \in RunIds :
     runs[r].path = "grsaiVideo" =>
        LET u == runs[r].images
            model == runs[r].payload.model
        IN  runs[r].payload =
              (CASE Len(u) = 0 -> [model |-> model, firstFrameUrl |-> "", lastFrameUrl |-> "",
                                   urls |-> <<>>]
                 [] Len(u) = 1 -> [model |-> model, firstFrameUrl |-> u[1], lastFrameUrl |-> "",
                                   urls |-> <<>>]
                 [] Len(u) = 2 -> [model |-> model, firstFrameUrl |-> u[1],
                                   lastFrameUrl |-> u[2], urls |-> <<>>]
                 [] OTHER -> [model |-> model, firstFrameUrl |-> "", lastFrameUrl |-> "",
                              urls |-> <<u[1], u[2], u[3]>>])

\* the image references a request carries
ImageRefs(payload) ==
  IF "images" \in DOMAIN payload THEN payload.images
  ELSE IF "url" \in DOMAIN payload THEN (IF payload.url = "" THEN <<>> ELSE <<payload.url>>)
  ELSE (IF payload.firstFrameUrl = "" THEN <<>> ELSE <<payload.firstFrameUrl>>)
       \o (IF payload.lastFrameUrl = "" THEN <<>> ELSE <<payload.lastFrameUrl>>)
       \o payload.urls

\* C27: the request a video generator has submitted, on either path, carries at most
\* 3 image references, the first 3 when 3 or more images are resolved.
C27_AtMostThreeImages ==
  \A r \in RunIds :
     (runs[r].calls \cap {"comflyVideo", "grsaiVideo"} /= {}) =>
        /\ Len(ImageRefs(runs[r].payload)) <= 3
        /\ Len(runs[r].images) >= 3 =>
              ImageRefs(runs[r].payload) = SubSeq(runs[r].images, 1, 3)

(***************************************************************************)
(* The editor: edge orders and node deletion.                              *)
(***************************************************************************)
\* the edges before edge j on the same target and the same target handle
EarlierOnHandle(j) ==
  {i \in 1..(j - 1) : /\ edges[i].target = edges[j].target
                      /\ edges[i].targetHandle = edges[j].targetHandle}

\* C29: in a graph built by adding nodes and connecting them (single connect,
\* multi-select connect, auto-connect of the selection), without deletions, every
\* edge to an "image" or "sequence" handle has as order the number of edges that were
\* on its target and handle before it, plus one, so that the orders on one handle are
\* 1..n; every edge to another handle has no order.
C29_OrderIsRank ==
  \A j \in 1..Len(edges) :
     IF edges[j].targetHandle \in {"image", "sequence"}
       THEN edges[j].order = Cardinality(EarlierOnHandle(j)) + 1
       ELSE edges[j].order = NoNum

\* C30: a deleteNode step has removed one node and exactly the edges whose source
\* or target it is; every other node, with its data, and every other edge is as
\* before, in the same order.
C30_DeleteNodeFrame ==
  last.act = "deleteNode" =>
     \E k \in 1..Len(last.nodes) :
        LET id == last.nodes[k].id
            keep == {j \in 1..Len(last.edges) :
                       last.edges[j].source /= id /\ last.edges[j].target /= id}
        IN  /\ Len(nodes) = Len(last.nodes) - 1
            /\ \A i \in 1..Len(nodes) : nodes[i] = last.nodes[IF i < k THEN i ELSE i + 1]
            /\ Len(edges) = Cardinality(keep)
            /\ \A j \in keep :
                  edges[Cardinality({m \in keep : m <= j})] = last.edges[j]

\* a node with an edge has been deleted, an edge between two other nodes is kept
C30_Witness ==
  /\ last.act = "deleteNode"
  /\ Len(edges) < Len(last.edges)
  /\ edges /= <<>>
  /\ Len(nodes) >= 2

(***************************************************************************)
(* Edge order after deletions.                                             *)
(***************************************************************************)
\* C31: on the image handle of node 1, after connections and edge deletions, the
\* resolved images are those of the surviving edges in the order in which the edges
\* were connected (a connection appends to the edge array and a deletion keeps the
\* others in place, so this is the order of the edge array).
C31_ResolvedInConnectionOrder ==
  getIncomingData(nodes, edges, 1).images =
     [j \in 1..Len(edges) |-> FindNode(nodes, edges[j].source).url]

(***************************************************************************)
(* Progress values.                                                        *)
(***************************************************************************)
\* C32: the progress of every node that has one is an integer in 0..100, whatever
\* percentage the provider reports, and after a cell of the splitter has been cut, the
\* i-th of n, the progress of the splitter is floor(i / n * 100).
C32_ProgressInRange ==
  /\ \A j \in 1..Len(nodes) : nodes[j].progress = NoNum \/ nodes[j].progress \in 0..100
  /\ \A r \in RunIds :
       (/\ r <= Len(last.runs)
        /\ Stepped(r)
        /\ last.runs[r].pc = "cell"
        /\ runs[r].i = last.runs[r].i + 1
        /\ HasNode(nodes, runs[r].node))
       => FindNode(nodes, runs[r].node).progress =
             (runs[r].i * 100) \div Len(runs[r].sel)

(***************************************************************************)
(* The result reference of an asynchronous generator.                      *)
(***************************************************************************)
AsyncPaths == {"comflyAsync", "grsaiDraw", "comflyVideo", "grsaiVideo"}

\* C33: when a run of an asynchronous generator has just succeeded, the step has
\* appended one result node whose url is a defined, non-empty reference, the node (if
\* still in the graph) has the same url, and the last answer of the provider was not
\* a completion without a reference.
C33_SuccessHasReference ==
  \A r \in RunIds :
     (JustSucceeded(r) /\ runs[r].path \in AsyncPaths) =>
        /\ Len(Appended) = 1
        /\ Truthy(Appended[1].url)
        /\ HasNode(nodes, runs[r].node) =>
              FindNode(nodes, runs[r].node).url = Appended[1].url
        /\ ~(runs[r].answer.st = "done" /\ ~Truthy(runs[r].answer.url))

(***************************************************************************)
(* updateNodeData.                                                         *)
(***************************************************************************)
\* a poll cycle of run r has just written a progress and scheduled the next poll: the
\* step is one updateNodeData(nodeId, { progress, statusMsg })
PolledAgain(r) ==
  /\ r \in RunIds /\ r <= Len(last.runs)
  /\ runs[r].out = "running"
  /\ runs[r].polls = last.runs[r].polls + 1

\* C34: updateNodeData(id, { progress, statusMsg }) changes these two fields of the
\* node with that id and nothing else: its other fields, the other nodes and the edges
\* are as before, and when no node has that id the graph is as before.
C34_UpdateFrame ==
  \A r \in RunIds :
     PolledAgain(r) =>
        /\ edges = last.edges
        /\ Len(nodes) = Len(last.nodes)
        /\ \A i \in 1..Len(nodes) :
              IF last.nodes[i].id = runs[r].node
                THEN /\ DOMAIN nodes[i] = DOMAIN last.nodes[i]
                     /\ \A f \in DOMAIN nodes[i] \ {"progress", "statusMsg"} :
                           nodes[i][f] = last.nodes[i][f]
                     /\ nodes[i].progress = runs[r].answer.progress
                     /\ nodes[i].statusMsg = ToString(runs[r].answer.progress) \o "%"
                ELSE nodes[i] = last.nodes[i]

\* a progress of 50 has been written on a node that has neighbours and edges
C34_Witness ==
  \E r \in RunIds :
     /\ PolledAgain(r)
     /\ HasNode(nodes, runs[r].node)
     /\ FindNode(nodes, runs[r].node).progress = 50
     /\ FindNode(last.nodes, runs[r].node).progress /= 50
     /\ Len(nodes) > 1 /\ Len(edges) > 0

(***************************************************************************)
(* Nodes that executeNode ignores.                                         *)
(***************************************************************************)
IgnoredLabels == {"ignored missing", "ignored inputText", "ignored inputImage",
                  "ignored outputResult", "ignored imageProcessing"}

\* C35: executing an id that is not in the graph, or the id of a text input, image
\* input, result or image processing node, changes nothing: the nodes (their status
\* included) and the edges are as before, and no invocation is started, so that no
\* external call is made.
C35_IgnoredChangesNothing ==
  last.act \in IgnoredLabels =>
     /\ nodes = last.nodes
     /\ edges = last.edges
     /\ runs = last.runs

\* a result node has been executed while the merger next to it had already run
C35_Witness ==
  /\ last.act = "ignored outputResult"
  /\ Len(runs) > 0
  /\ Len(edges) > 0

(***************************************************************************)
(* deleteSelected.                                                         *)
(***************************************************************************)
WasSelectedNode(id) == \E i \in 1..Len(last.nodes) : last.nodes[i].id = id /\ last.nodes[i].selected

\* C36: deleteSelected removes the selected nodes, the selected edges and the edges
\* that start or end at a selected node, and nothing else: the other nodes and edges
\* are as before and in their order, the invocations are untouched, and with nothing
\* selected the graph is as before.
C36_DeleteSelectedFrame ==
  last.act = "delete" =>
     /\ nodes = SelectSeq(last.nodes, LAMBDA n : ~n.selected)
     /\ edges = SelectSeq(last.edges, LAMBDA e : /\ ~e.selected
                                                 /\ ~WasSelectedNode(e.source)
                                                 /\ ~WasSelectedNode(e.target))
     /\ runs = last.runs
     /\ ((\A i \in 1..Len(last.nodes) : ~last.nodes[i].selected)
          /\ (\A j \in 1..Len(last.edges) : ~last.edges[j].selected))
        => (nodes = last.nodes /\ edges = last.edges)

\* a selected node has gone with its edge while it was running; another edge stays
C36_Witness ==
  /\ last.act = "delete"
  /\ Len(nodes) < Len(last.nodes)
  /\ Len(edges) < Len(last.edges)
  /\ Len(edges) > 0
  /\ \E r \in RunIds : ~HasNode(nodes, runs[r].node) /\ runs[r].out = "running"

(***************************************************************************)
(* Results and the graph of the execution.                                 *)
(***************************************************************************)
\* C40: a step of an execution that was started under another project than the
\* current one (newProject or loadProject has replaced the graph since) adds no node
\* and no edge to the graph.
C40_ResultsStayInTheirGraph ==
  \A r \in RunIds :
     (Stepped(r) /\ runs[r].project /= currentProjectId) =>
        /\ Len(nodes) = Len(last.nodes)
        /\ Len(edges) = Len(last.edges)

(***************************************************************************)
(* duplicateNode.                                                          *)
(***************************************************************************)
\* c has the payload of o: every field but the id, the position, the selection and
\* the three fields of the execution state
CopyOf(c, o) ==
  /\ DOMAIN c = DOMAIN o
  /\ \A f \in DOMAIN o \ {"id", "pos", "selected", "status", "progress", "statusMsg"} :
        c[f] = o[f]

\* C37: duplicateNode of a node of the graph appends one node, with an id no node
\* had, the payload of the original, status idle, progress 0 and no status message;
\* no edge starts or ends at the copy; the nodes of before (the original included,
\* running or not), the edges and the invocations are as they were. With an id that
\* no node has, nothing changes.
C37_DuplicateFrame ==
  /\ last.act = "duplicate" =>
        /\ Len(nodes) = Len(last.nodes) + 1
        /\ SubSeq(nodes, 1, Len(last.nodes)) = last.nodes
        /\ edges = last.edges
        /\ runs = last.runs
        /\ LET copy == nodes[Len(nodes)]
           IN  /\ copy.id \notin NodeIds(last.nodes)
               /\ \E i \in 1..Len(last.nodes) : CopyOf(copy, last.nodes[i])
               /\ copy.status = "idle" /\ copy.progress = 0 /\ copy.statusMsg = NoVal
               /\ \A j \in 1..Len(edges) :
                     edges[j].source /= copy.id /\ edges[j].target /= copy.id
  /\ last.act = "duplicate missing" =>
        nodes = last.nodes /\ edges = last.edges /\ runs = last.runs

\* a running node that has an edge has been duplicated
C37_Witness ==
  /\ last.act = "duplicate"
  /\ \E i \in 1..Len(last.nodes) :
        /\ last.nodes[i].status = "loading"
        /\ nodes[i].status = "loading"
        /\ CopyOf(nodes[Len(nodes)], last.nodes[i])
        /\ nodes[Len(nodes)].startTime = last.nodes[i].startTime
        /\ \E j \in 1..Len(edges) : edges[j].target = last.nodes[i].id

(***************************************************************************)
(* Saved snapshots.                                                        *)
(***************************************************************************)
\* C38: no stored project contains a node with status loading; and after saveProject
\* the project stored last has the id of the current project, the edges of the graph
\* and its nodes with progress 0 and no status message, a running node as idle and
\* any other node with its status, while the graph and the invocations are as before.
C38_SnapshotNeverRunning ==
  /\ \A k \in 1..Len(projects) : \A i \in 1..Len(projects[k].nodes) :
        projects[k].nodes[i].status /= "loading"
  /\ last.act = "save" =>
        /\ nodes = last.nodes
        /\ edges = last.edges
        /\ runs = last.runs
        /\ Len(projects) > 0
        /\ LET saved == projects[Len(projects)]
           IN  /\ saved.id = currentProjectId
               /\ saved.edges = edges
               /\ Len(saved.nodes) = Len(nodes)
               /\ \A i \in 1..Len(nodes) :
                     /\ saved.nodes[i].id = nodes[i].id
                     /\ saved.nodes[i].progress = 0
                     /\ saved.nodes[i].statusMsg = NoVal
                     /\ saved.nodes[i].status =
                           (IF nodes[i].status = "loading" THEN "idle" ELSE nodes[i].status)

\* a graph with a running node has been saved, and the node is still running
C38_Witness ==
  /\ last.act = "save"
  /\ \E i \in 1..Len(nodes) :
        /\ nodes[i].status = "loading"
        /\ nodes[i].statusMsg /= NoVal
        /\ projects[Len(projects)].nodes[i].status = "idle"

(***************************************************************************)
(* The project list.                                                       *)
(***************************************************************************)
\* C39: no two stored projects have the same id, and the current project id is null
\* or the id of a stored project.
C39_UniqueIdsAndCurrent ==
  /\ \A i, j \in 1..Len(projects) : projects[i].id = projects[j].id => i = j
  /\ currentProjectId = NoProject \/ currentProjectId \in ProjectIds(projects)

\* the current project has been deleted from a list that keeps another project
C39_Witness ==
  /\ last.act = "deleteProject"
  /\ currentProjectId = NoProject
  /\ Len(nodes) > 0
  /\ Len(projects) > 0

====
